---- MODULE Spec2Model ----
(***************************************************************************)
(* A model of github.com/mcphone2004/cache.                                *)
(*                                                                         *)
(*   list.List / list.Entry   the pooled, sentinel-rooted doubly linked    *)
(*                            list (src/list/list.go)                      *)
(*   internal.List            the LRU queue built on it                    *)
(*                            (src/internal/list.go)                       *)
(*   lru.Cache                the single-mutex LRU cache (src/lru/lru.go)  *)
(*                                                                         *)
(* Pointers are integers: 0 is nil, n > 0 is the list.Entry object n, and  *)
(* -l is &l.root, the sentinel of the list.List object l.                  *)
(***************************************************************************)
EXTENDS Integers, Sequences, FiniteSets, TLC

\* ------------------------------------------------------------------ bounds
\* The capacity the cache is constructed with (lru.WithCapacity).
Capacity == 2
\* Distinct non-zero values of V.
NumVals == 2
\* Goroutines calling into the cache.
NumThreads == 2
\* Cache calls that may be inside OnEvict at once, over all goroutines:
\* concurrent ones, and nested ones when a callback re-enters the cache.
MaxCalls == 2

\* One key more than fits, so that a Put into a full cache meets a new key.
Keys == 1 .. (Capacity + 1)
Vals == 1 .. NumVals
Threads == 1 .. NumThreads
\* list.Entry objects: the pooled ones plus the ones sync.Pool's New makes.
NodeIds == 1 .. (Capacity + 1)
ListIds == {1}

\* The nil pointer.
Nil == 0
\* The list.List object that is c.queue.order.
Q == 1
\* zeroOf[K](), zeroOf[V]().
Zero == 0

\* The *Entry[K,V] stored in a list node is modelled by its content; the nil
\* *Entry (and a zeroed Entry) is NilEntry.
NilEntry == [Key |-> Zero, Value |-> Zero]
MkEntry(k, v) == [Key |-> k, Value |-> v]

\* ------------------------------------------------------- list.List (memory)
\* mem.ent[n] is the list.Entry n, mem.lst[l] the list.List l (its root
\* sentinel's links, len, and its sync.Pool: hasPool is "pool != nil").
ZeroNode == [next |-> Nil, prev |-> Nil, list |-> Nil, Value |-> NilEntry]
ZeroList == [next |-> Nil, prev |-> Nil, len |-> 0, pool |-> {}, hasPool |-> FALSE]

RootOf(l) == 0 - l

\* p.next and p.prev (nil reads as nil: the code reads a link only of an
\* Entry it holds, or of a root).
NextOf(m, p) == IF p = Nil THEN Nil
                ELSE IF p < 0 THEN m.lst[0 - p].next ELSE m.ent[p].next
PrevOf(m, p) == IF p = Nil THEN Nil
                ELSE IF p < 0 THEN m.lst[0 - p].prev ELSE m.ent[p].prev

\* p.next = q and p.prev = q; a store through nil panics (fault), and the
\* statements after a panic do not run.
SetNext(m, p, q) ==
    IF m.fault THEN m
    ELSE IF p = Nil THEN [m EXCEPT !.fault = TRUE]
    ELSE IF p < 0 THEN [m EXCEPT !.lst[0 - p].next = q]
    ELSE [m EXCEPT !.ent[p].next = q]
SetPrev(m, p, q) ==
    IF m.fault THEN m
    ELSE IF p = Nil THEN [m EXCEPT !.fault = TRUE]
    ELSE IF p < 0 THEN [m EXCEPT !.lst[0 - p].prev = q]
    ELSE [m EXCEPT !.ent[p].prev = q]

\* List.Init
ListInit(m, l) ==
    [m EXCEPT !.lst[l] = [next |-> RootOf(l), prev |-> RootOf(l), len |-> 0,
                          pool |-> {}, hasPool |-> TRUE]]

\* List.Size
ListSize(m, l) == m.lst[l].len

\* The statements move, insert and remove are made of:
\*   e.prev.next = e.next
StorePrevNext(m, e) == SetNext(m, PrevOf(m, e), NextOf(m, e))
\*   e.next.prev = e.prev
StoreNextPrev(m, e) == SetPrev(m, NextOf(m, e), PrevOf(m, e))
\*   e.next = at.next
StoreNextOfAt(m, e, at) == SetNext(m, e, NextOf(m, at))
\*   e.prev.next = e
LinkPrev(m, e) == SetNext(m, PrevOf(m, e), e)
\*   e.next.prev = e
LinkNext(m, e) == SetPrev(m, NextOf(m, e), e)
\*   e.prev = at; e.next = at.next; e.prev.next = e; e.next.prev = e
Splice(m, e, at) ==
    LinkNext(LinkPrev(StoreNextOfAt(SetPrev(m, e, at), e, at), e), e)
\*   e.prev.next = e.next; e.next.prev = e.prev
Unsplice(m, e) == StoreNextPrev(StorePrevNext(m, e), e)

\* List.move: moves e to next to at.
ListMove(m, e, at) == IF e = at THEN m ELSE Splice(Unsplice(m, e), e, at)

\* A variant of MoveToFront's check that lets every Entry pass.
ListMoveToFrontErr_Never(m, l, e) == FALSE
\* List.MoveToFront: whether it returns an error, and the memory after it.
ListMoveToFrontErr(m, l, e) == m.ent[e].list # l
ListMoveToFront(m, l, e) ==
    IF m.ent[e].list # l THEN m
    ELSE IF m.lst[l].next = e THEN m
    ELSE ListMove(m, e, RootOf(l))

\* List.insert: inserts e after at, increments l.len.
InsertEnd(m, l, e) ==
    IF m.fault THEN m ELSE [m EXCEPT !.ent[e].list = l, !.lst[l].len = @ + 1]
ListInsert(m, l, e, at) == InsertEnd(Splice(m, e, at), l, e)

\* What l.pool.Get() may return: an Entry put back earlier, or a new one
\* from New (an object nobody holds).
PoolChoices(m, l) ==
    m.lst[l].pool \cup
    {n \in NodeIds : /\ m.ent[n].list = Nil
                     /\ \A k \in DOMAIN m.lst : n \notin m.lst[k].pool}
\* The cache never looks at which Entry object it was handed, so its pool
\* is taken to hand out the lowest-numbered one it can.
LowestOf(ns) == IF ns = {} THEN Nil ELSE CHOOSE n \in ns : \A x \in ns : n <= x
PoolGet(m, l) == LowestOf(PoolChoices(m, l))

\* List.insertValue / List.PushFront with n the Entry that pool.Get
\* returned. Calling Get on a nil pool panics.
ListPushFront(m, l, n, val) ==
    IF ~m.lst[l].hasPool \/ n = Nil THEN [m EXCEPT !.fault = TRUE]
    ELSE ListInsert([m EXCEPT !.lst[l].pool = @ \ {n}, !.ent[n].Value = val],
                    l, n, RootOf(l))

\* A variant of Back that returns the front element.
ListBack_Front(m, l) == IF m.lst[l].len = 0 THEN Nil ELSE m.lst[l].next

\* List.Front, List.Back
ListFront(m, l) == IF m.lst[l].len = 0 THEN Nil ELSE m.lst[l].next
ListBack(m, l) == IF m.lst[l].len = 0 THEN Nil ELSE m.lst[l].prev

\* Entry.Next
EntryNext(m, e) ==
    IF m.ent[e].list # Nil /\ m.ent[e].next # RootOf(m.ent[e].list)
    THEN m.ent[e].next ELSE Nil

\* List.remove: unlinks e, decrements l.len.
RemoveEnd(m, l, e) ==
    IF m.fault THEN m
    ELSE [m EXCEPT !.ent[e].next = Nil, !.ent[e].prev = Nil,
                   !.ent[e].list = Nil, !.lst[l].len = @ - 1]
ListUnlink(m, l, e) == RemoveEnd(Unsplice(m, e), l, e)

\* List.Remove: after remove, e is zeroed and put back into the pool.
Recycle(m, l, e) ==
    IF m.fault THEN m
    ELSE IF ~m.lst[l].hasPool THEN [m EXCEPT !.fault = TRUE]
    ELSE [m EXCEPT !.ent[e] = ZeroNode, !.lst[l].pool = @ \cup {e}]
ListRemove(m, l, e) ==
    IF m.ent[e].list # l THEN m ELSE Recycle(ListUnlink(m, l, e), l, e)

\* List.Seq: the entries the iterator yields, front to back. The walk is
\* cut after fuel entries (a corrupted ring would not end).
RECURSIVE SeqFrom(_, _, _)
SeqFrom(m, e, fuel) ==
    IF e = Nil \/ fuel = 0 THEN <<>>
    ELSE <<e>> \o SeqFrom(m, EntryNext(m, e), fuel - 1)
\* A variant of Seq that starts its walk at the back of the list.
ListSeq_FromBack(m, l) == SeqFrom(m, ListBack(m, l), Cardinality(NodeIds))
ListSeq(m, l) == SeqFrom(m, ListFront(m, l), Cardinality(NodeIds))

\* ------------------------------------------- internal.List (the LRU queue)
\* A state S is [c |-> the lru.Cache object, m |-> the list memory,
\* fatal |-> the Go runtime has ended the process with a fatal error].

\* List.Size, List.Capacity
QSize(S) == ListSize(S.m, Q)
QCapacity(S) == S.c.capacity

\* List.Destroy: l.order becomes the zero list.List (same address).
QDestroy(S) == [S EXCEPT !.m.lst[Q] = ZeroList]

\* List.Seq
QSeq(S) == ListSeq(S.m, Q)

\* List.MoveToFront: panics when list.MoveToFront returns an error.
QMoveToFront(S, elem) ==
    [S EXCEPT !.m = IF ListMoveToFrontErr(S.m, Q, elem)
                    THEN [S.m EXCEPT !.fault = TRUE]
                    ELSE ListMoveToFront(S.m, Q, elem)]

\* List.Remove: clears elem.Value, unlinks elem, returns the Entry it held.
QRemove(S, elem) ==
    [S  |-> [S EXCEPT !.m = ListRemove([S.m EXCEPT !.ent[elem].Value = NilEntry],
                                       Q, elem)],
     en |-> S.m.ent[elem].Value]

\* List.Back
QBack(S) == ListBack(S.m, Q)

\* List.PushFront with n the list.Entry its pool hands out; the new
\* element is n.
QPushFront(S, n, key, value) ==
    [S EXCEPT !.m = ListPushFront(S.m, Q, n, MkEntry(key, value))]

\* List.OnEvict: the callback invocations it makes for the Entry en (none
\* when no callback is set), and whether a panic of the callback is stopped
\* inside OnEvict. recover() is called by the closure itself before the
\* callback runs, not by a deferred function, so it returns nil and stops
\* nothing.
OnEvictCalls(S, en) == IF S.c.onEvict THEN <<MkEntry(en.Key, en.Value)>> ELSE <<>>
OnEvictRecovers == FALSE

\* --------------------------------------------------------------- lru.Cache
ErrNil == "nil"
ErrShutdown == "ShutdownError"
ErrPanic == "panic"

\* Go's map: the map with no key, delete(m, k) and m[k] = v.
EmptyMap == [x \in {} |-> Nil]
\* A variant of delete that leaves the key in the map.
MapDelete_Keep(f, k) == f
MapDelete(f, k) == [x \in DOMAIN f \ {k} |-> f[x]]
MapSet(f, k, v) == [x \in DOMAIN f \cup {k} |-> IF x = k THEN v ELSE f[x]]

\* sync.Mutex. Lock is taken only when the mutex is free (the actions'
\* guard); mu records the goroutine that locked it. Unlock of an unlocked
\* mutex is a fatal error; Unlock does not check who locked.
Lock(S, t) == [S EXCEPT !.c.mu = t]
Unlock(S) ==
    IF S.c.mu = Nil THEN [S EXCEPT !.fatal = TRUE] ELSE [S EXCEPT !.c.mu = Nil]
\* An Unlock that is a plain statement (not deferred) is not reached when a
\* list operation before it has panicked.
UnlockStmt(S) == IF S.m.fault THEN S ELSE Unlock(S)

\* Cache.Get: S the state with the mutex locked.
GetHit(S, elem) ==
    [S |-> Unlock(S), val |-> S.m.ent[elem].Value.Value, ok |-> TRUE,
     err |-> ErrNil]
GetLocked(S, key) ==
    IF S.c.isShutdown
    THEN [S |-> Unlock(S), val |-> Zero, ok |-> FALSE, err |-> ErrShutdown]
    ELSE IF key \in DOMAIN S.c.items
    THEN GetHit(QMoveToFront(S, S.c.items[key]), S.c.items[key])
    ELSE [S |-> Unlock(S), val |-> Zero, ok |-> FALSE, err |-> ErrNil]
CacheGet(S0, t, key) == GetLocked(Lock(S0, t), key)

\* Cache.evict: removes the back element from the index and the queue; r
\* is what queue.Remove returned.
NotEvicted(S) == [S |-> S, en |-> NilEntry, some |-> FALSE]
Evicted(r) == [S |-> r.S, en |-> r.en, some |-> TRUE]
EvictElem(S, elem) ==
    IF elem # Nil
    THEN Evicted(QRemove([S EXCEPT !.c.items = MapDelete(@, S.m.ent[elem].Value.Key)],
                         elem))
    ELSE NotEvicted(S)
CacheEvict(S) == EvictElem(S, QBack(S))

\* Cache.Put up to its last Unlock: the state, the evicted Entry if any
\* (for OnEvict), and the error Put returns. PutUpdate is the branch for a
\* key that is present, PutInsert the rest of Put after the capacity check
\* (r what the check and evict left).
SetValue(S, elem, value) == [S EXCEPT !.m.ent[elem].Value.Value = value]
\* A variant of the update branch that leaves the stored value as it was.
PutUpdate_KeepValue(S, elem, value) ==
    [S |-> UnlockStmt(QMoveToFront(S, elem)), some |-> FALSE, en |-> NilEntry,
     err |-> ErrNil]
\* A variant of the update branch that leaves the element where it is.
PutUpdate_NoMove(S, elem, value) ==
    [S |-> UnlockStmt(SetValue(S, elem, value)), some |-> FALSE,
     en |-> NilEntry, err |-> ErrNil]
PutUpdate(S, elem, value) ==
    [S |-> UnlockStmt(SetValue(QMoveToFront(S, elem), elem, value)),
     some |-> FALSE, en |-> NilEntry, err |-> ErrNil]
PushIndexed(S, n, key, value) ==
    [QPushFront(S, n, key, value) EXCEPT !.c.items = MapSet(@, key, n)]
PutInsert(r, key, value) ==
    [S |-> UnlockStmt(PushIndexed(r.S, PoolGet(r.S.m, Q), key, value)),
     some |-> r.some, en |-> r.en, err |-> ErrNil]
\* A variant of Put that never evicts.
PutLocked_NoEvict(S, key, value) ==
    IF S.c.isShutdown
    THEN [S |-> Unlock(S), some |-> FALSE, en |-> NilEntry, err |-> ErrNil]
    ELSE IF key \in DOMAIN S.c.items
    THEN PutUpdate(S, S.c.items[key], value)
    ELSE PutInsert(NotEvicted(S), key, value)
PutLocked(S, key, value) ==
    IF S.c.isShutdown
    THEN [S |-> Unlock(S), some |-> FALSE, en |-> NilEntry, err |-> ErrNil]
    ELSE IF key \in DOMAIN S.c.items
    THEN PutUpdate(S, S.c.items[key], value)
    ELSE PutInsert(IF QSize(S) = QCapacity(S) THEN CacheEvict(S)
                   ELSE NotEvicted(S), key, value)
CachePut(S0, t, key, value) == PutLocked(Lock(S0, t), key, value)

\* Cache.Delete up to its last Unlock; r is what queue.Remove returned.
\* A variant of Delete that does not call OnEvict.
DeleteHit_Silent(r) ==
    [S |-> UnlockStmt(r.S), some |-> FALSE, en |-> NilEntry, ok |-> TRUE,
     err |-> ErrNil]
DeleteHit(r) ==
    [S |-> UnlockStmt(r.S), some |-> TRUE, en |-> r.en, ok |-> TRUE,
     err |-> ErrNil]
\* A variant of Delete that reports true for a key that is absent.
DeleteLocked_True(S, key) ==
    IF S.c.isShutdown
    THEN [S |-> Unlock(S), some |-> FALSE, en |-> NilEntry, ok |-> FALSE,
          err |-> ErrShutdown]
    ELSE IF key \notin DOMAIN S.c.items
    THEN [S |-> Unlock(S), some |-> FALSE, en |-> NilEntry, ok |-> TRUE,
          err |-> ErrNil]
    ELSE DeleteHit(QRemove([S EXCEPT !.c.items = MapDelete(@, key)],
                           S.c.items[key]))
DeleteLocked(S, key) ==
    IF S.c.isShutdown
    THEN [S |-> Unlock(S), some |-> FALSE, en |-> NilEntry, ok |-> FALSE,
          err |-> ErrShutdown]
    ELSE IF key \notin DOMAIN S.c.items
    THEN [S |-> Unlock(S), some |-> FALSE, en |-> NilEntry, ok |-> FALSE,
          err |-> ErrNil]
    ELSE DeleteHit(QRemove([S EXCEPT !.c.items = MapDelete(@, key)],
                           S.c.items[key]))
CacheDelete(S0, t, key) == DeleteLocked(Lock(S0, t), key)

\* One turn of the loop of Cache.reset, entered with the mutex held: evict
\* the back element (r is what evict returned); with none left the loop
\* ends (mutex still held), else the mutex is released for OnEvict.
\* A variant of reset that keeps the mutex locked across OnEvict.
TurnOf_Held(r) ==
    IF ~r.some THEN [S |-> r.S, done |-> TRUE, en |-> NilEntry]
    ELSE [S |-> r.S, done |-> FALSE, en |-> r.en]
TurnOf(r) ==
    IF ~r.some THEN [S |-> r.S, done |-> TRUE, en |-> NilEntry]
    ELSE [S |-> UnlockStmt(r.S), done |-> FALSE, en |-> r.en]
ResetTurn(S) == TurnOf(CacheEvict(S))

\* The end of Cache.Reset and Cache.Shutdown once reset has returned:
\* Shutdown clears items and destroys the queue; the deferred Unlock runs.
ResetEnd(S, op) ==
    IF op = "Shutdown"
    THEN Unlock(QDestroy([S EXCEPT !.c.items = EmptyMap, !.c.itemsNil = TRUE]))
    ELSE Unlock(S)
\* reset up to its next OnEvict (done is FALSE, en the Entry evicted), or
\* to the return of op (done is TRUE); r is the turn taken.
ResetStep(r, op) ==
    [S |-> IF r.done THEN ResetEnd(r.S, op) ELSE r.S, done |-> r.done,
     en |-> r.en, err |-> ErrNil]

\* Cache.Reset from its call to the first OnEvict, or to its return.
ResetLocked(S) ==
    IF S.c.isShutdown
    THEN [S |-> Unlock(S), done |-> TRUE, en |-> NilEntry, err |-> ErrShutdown]
    ELSE ResetStep(ResetTurn(S), "Reset")
CacheReset(S0, t) == ResetLocked(Lock(S0, t))

\* Cache.Shutdown from its call to the first OnEvict, or to its return.
\* A variant of Shutdown without the isShutdown check.
ShutdownLocked_Again(S) ==
    ResetStep(ResetTurn([S EXCEPT !.c.isShutdown = TRUE]), "Shutdown")
ShutdownLocked(S) ==
    IF S.c.isShutdown
    THEN [S |-> Unlock(S), done |-> TRUE, en |-> NilEntry, err |-> ErrNil]
    ELSE ResetStep(ResetTurn([S EXCEPT !.c.isShutdown = TRUE]), "Shutdown")
CacheShutdown(S0, t) == ShutdownLocked(Lock(S0, t))

\* Cache.reset after OnEvict has returned: c.mu.Lock() and the next turn.
\* A variant of reset that ends after its first OnEvict.
ResetResume_Stop(S0, t, op) ==
    [S |-> ResetEnd(Lock(S0, t), op), done |-> TRUE, en |-> NilEntry,
     err |-> ErrNil]
ResetResume(S0, t, op) == ResetStep(ResetTurn(Lock(S0, t)), op)

\* Cache.Size, Cache.Capacity
SizeLocked(S) ==
    IF S.c.isShutdown THEN [S |-> Unlock(S), n |-> 0, err |-> ErrShutdown]
    ELSE [S |-> Unlock(S), n |-> QSize(S), err |-> ErrNil]
CacheSize(S0, t) == SizeLocked(Lock(S0, t))
CapacityLocked(S) ==
    IF S.c.isShutdown THEN [S |-> Unlock(S), n |-> 0, err |-> ErrShutdown]
    ELSE [S |-> Unlock(S), n |-> QCapacity(S), err |-> ErrNil]
CacheCapacity(S0, t) == CapacityLocked(Lock(S0, t))

\* Cache.Traverse with a fn that returns false at its stop-th call (never,
\* when stop = 0): the entries fn was called with, in order.
VisitedOf(S, all, stop) ==
    [i \in 1 .. (IF stop = 0 \/ stop > Len(all) THEN Len(all) ELSE stop) |->
        S.m.ent[all[i]].Value]
Visited(S, stop) == VisitedOf(S, QSeq(S), stop)
TraverseLocked(S, stop) ==
    IF S.c.isShutdown THEN [S |-> Unlock(S), seq |-> <<>>, err |-> ErrShutdown]
    ELSE [S |-> Unlock(S), seq |-> Visited(S, stop), err |-> ErrNil]
CacheTraverse(S0, t, stop) == TraverseLocked(Lock(S0, t), stop)

\* A panic leaving OnEvict unwinds the goroutine's stack of cache calls,
\* innermost first: Put and Delete have released the mutex and defer
\* nothing; Reset and Shutdown run their deferred c.mu.Unlock().
UnwindFrame(S, op) == IF op \in {"Reset", "Shutdown"} THEN Unlock(S) ELSE S
RECURSIVE Unwind(_, _)
Unwind(S, frames) ==
    IF frames = <<>> \/ S.fatal THEN S
    ELSE Unwind(UnwindFrame(S, frames[Len(frames)]),
                SubSeq(frames, 1, Len(frames) - 1))

\* ------------------------------------------------------------ the system
VARIABLES
    c,       \* the lru.Cache: mu, isShutdown, items (itemsNil: items == nil),
             \* and its queue's capacity and onEvict (is a callback set)
    mem,     \* the list.Entry objects and the list.List c.queue.order
    fatal,   \* the process has died of a Go fatal error
    stack,   \* per goroutine, the cache calls whose OnEvict is running,
             \* outermost first; <<>> when it is outside every callback
    escaped, \* the call whose caller a panic reached in the last step
             \* ("none" when the last step was no panic)
    touch,   \* history: the keys held, most recently touched (Put, or Get
             \* that hit) first
    latest,  \* history: per key the value of its last Put, Zero once the
             \* key has been evicted, deleted or reset
    rs,      \* history: the Reset being followed from call to return
    gm,      \* the GetMultiIter call: its goroutine, the keys its sequence
             \* yields, how many it was asked for, the hitCB/missCB calls
             \* made, and its return
    em,      \* the ExpiryMap object
    run,     \* the ExpiryMap's worker goroutine: its place in run(), its
             \* timer and its expiredRecords
    now,     \* the wall clock
    hist,    \* history of the ExpiryMap: handles returned, keys pending,
             \* what onExpiry was called with and when
    sd,      \* the goroutine that calls ExpiryMap.Shutdown: its place in it
    objs,    \* the expirySet map objects behind the ExpiryMap's key sets:
             \* which object each bucket and the worker's expiredRecords
             \* point to, what each holds, and which are in setPool
    sr,      \* the shard package: the Options given, the router built from
             \* them with its shards, and the calls in flight
    lc,      \* a client of package list: the memory of its Lists and
             \* Entries, the *Entry handles it holds, and its last call
    c2,      \* the two-lock cache of package lru2 and the calls in flight
    hp       \* a heap.Heap of integers on its own: its data, and what its
             \* client has put in and got out

cacheVars == <<c, mem, fatal, stack, escaped, touch, latest, rs>>
expiryVars == <<em, run, now, hist, sd, objs>>
vars == <<c, mem, fatal, stack, escaped, touch, latest, rs, gm, em, run, now,
          hist, sd, objs, sr, lc, c2, hp>>
\* A step of the cache alone.
CacheOnly == UNCHANGED <<gm, em, run, now, hist, sd, objs, sr, lc, c2, hp>>

St == [c |-> c, m |-> mem, fatal |-> fatal]
Commit(S) == c' = S.c /\ mem' = S.m /\ fatal' = S.fatal

\* The keys in the queue front to back, the entries and the keys held.
KeysAlong(S, q) == [i \in 1 .. Len(q) |-> S.m.ent[q[i]].Value.Key]
KeySeqOf(S) == KeysAlong(S, QSeq(S))
EntriesOf(S) == {S.m.ent[n].Value : n \in {x \in NodeIds : S.m.ent[x].list = Q}}
KeysOf(S) == {e.Key : e \in EntriesOf(S)}
KeySeq == KeySeqOf(St)
CacheKeys == KeysOf(St)
Entries == EntriesOf(St)

Top(t) == stack[t][Len(stack[t])]
RECURSIVE SumLen(_)
SumLen(T) == IF T = {} THEN 0
             ELSE LET t == CHOOSE x \in T : TRUE IN Len(stack[t]) + SumLen(T \ {t})
InCalls == SumLen(Threads)
Push(t, op) == [stack EXCEPT ![t] = Append(@, op)]
Pop(t) == [stack EXCEPT ![t] = SubSeq(@, 1, Len(@) - 1)]

Touch(q, k) == <<k>> \o SelectSeq(q, LAMBDA x : x # k)
Drop(q, k) == SelectSeq(q, LAMBDA x : x # k)

RsNone == [t |-> 0, d |-> 0, pairs |-> {}, cbs |-> <<>>, done |-> FALSE]
\* rs after a step of goroutine t that took the cache from S0 to S1 and
\* invoked the callbacks cb: start says the step is a Reset call on an
\* Active cache, own that it is a step of the followed Reset itself, done
\* that the Reset returned. A Reset is followed while nothing else changes
\* what the cache holds.
RsNext(t, S0, S1, cb, start, own, done) ==
    IF start /\ (rs.t = 0 \/ rs.done)
    THEN [t |-> t, d |-> Len(stack[t]) + 1, pairs |-> EntriesOf(S0), cbs |-> cb,
          done |-> done]
    ELSE IF rs.t = 0 \/ rs.done THEN RsNone
    ELSE IF own THEN [rs EXCEPT !.cbs = @ \o cb, !.done = done]
    ELSE IF EntriesOf(S1) # EntriesOf(S0) \/ S1.c.isShutdown # S0.c.isShutdown
    THEN RsNone
    ELSE rs
OwnReset(t) ==
    rs.t = t /\ ~rs.done /\ Len(stack[t]) = rs.d /\ Top(t) = "Reset"

\* No GetMultiIter call is made, and no ExpiryMap is built.
GmNone == [t |-> 0, keys |-> <<>>, asked |-> 0, calls |-> <<>>,
           pc |-> "none", err |-> ErrNil]
NoExpiryMap ==
    /\ em = <<>> /\ run = <<>> /\ now = 0 /\ hist = <<>>
    /\ sd = "none" /\ objs = <<>>
NoRouter == sr = <<>>
NoLists == lc = <<>>
NoCache2 == c2 = <<>>
NoHeap == hp = <<>>

\* lru.New: an empty cache, built with an eviction callback or without.
CacheInit ==
    /\ c \in {[mu |-> Nil, isShutdown |-> FALSE, items |-> EmptyMap,
               itemsNil |-> FALSE, capacity |-> Capacity, onEvict |-> b] :
              b \in BOOLEAN}
    /\ mem = ListInit([ent |-> [n \in NodeIds |-> ZeroNode],
                       lst |-> [l \in ListIds |-> ZeroList],
                       fault |-> FALSE], Q)
    /\ fatal = FALSE
    /\ stack = [t \in Threads |-> <<>>]
    /\ escaped = "none"
    /\ touch = <<>>
    /\ latest = [k \in Keys |-> Zero]
    /\ rs = RsNone
Init == CacheInit /\ gm = GmNone /\ NoExpiryMap /\ NoRouter /\ NoLists /\ NoCache2 /\ NoHeap

\* Goroutine t can call into the cache and take c.mu: the process is alive,
\* the mutex is free, and t is outside the cache or inside a callback.
CanCall(t) ==
    /\ ~fatal
    /\ ~mem.fault
    /\ c.mu = Nil
    /\ (stack[t] = <<>> \/ c.onEvict)

\* The callback invocations of a step that evicted (some) the Entry en.
CbOf(S, some, en) == IF some THEN OnEvictCalls(S, en) ELSE <<>>
\* The call op goes into OnEvict when it evicted and a callback is set.
InCallback(S, some) == some /\ S.c.onEvict

\* In each action r is what the operation's code computed from St.
GetStep(t, k, r) ==
    /\ Commit(r.S)
    /\ escaped' = "none"
    /\ touch' = IF r.ok THEN Touch(touch, k) ELSE touch
    /\ rs' = RsNext(t, St, r.S, <<>>, FALSE, FALSE, FALSE)
    /\ UNCHANGED <<stack, latest>>
Get(t, k) == CanCall(t) /\ GetStep(t, k, CacheGet(St, t, k)) /\ CacheOnly

PutStep(t, k, v, r) ==
    /\ InCallback(r.S, r.some) => InCalls < MaxCalls
    /\ Commit(r.S)
    /\ escaped' = "none"
    /\ stack' = IF InCallback(r.S, r.some) THEN Push(t, "Put")
                ELSE stack
    /\ touch' = IF c.isShutdown THEN touch
                ELSE Touch(IF r.some THEN Drop(touch, r.en.Key) ELSE touch, k)
    /\ latest' = IF c.isShutdown THEN latest
                 ELSE IF r.some THEN [latest EXCEPT ![r.en.Key] = Zero, ![k] = v]
                 ELSE [latest EXCEPT ![k] = v]
    /\ rs' = RsNext(t, St, r.S, CbOf(r.S, r.some, r.en), FALSE, FALSE, FALSE)
Put(t, k, v) ==
    CanCall(t) /\ PutStep(t, k, v, CachePut(St, t, k, v)) /\ CacheOnly

DeleteStep(t, k, r) ==
    /\ InCallback(r.S, r.some) => InCalls < MaxCalls
    /\ Commit(r.S)
    /\ escaped' = "none"
    /\ stack' = IF InCallback(r.S, r.some) THEN Push(t, "Delete")
                ELSE stack
    /\ touch' = IF r.some THEN Drop(touch, r.en.Key) ELSE touch
    /\ latest' = IF r.some THEN [latest EXCEPT ![r.en.Key] = Zero] ELSE latest
    /\ rs' = RsNext(t, St, r.S, CbOf(r.S, r.some, r.en), FALSE, FALSE, FALSE)
Delete(t, k) ==
    CanCall(t) /\ DeleteStep(t, k, CacheDelete(St, t, k)) /\ CacheOnly

\* A step of Reset or Shutdown (op): its call (resumed is FALSE), or its
\* going on after a callback has returned (resumed is TRUE).
ResetLikeStep(t, op, r, resumed, start, own) ==
    /\ (~r.done /\ ~resumed) => InCalls < MaxCalls
    /\ Commit(r.S)
    /\ escaped' = "none"
    /\ stack' = IF r.done THEN (IF resumed THEN Pop(t) ELSE stack)
                ELSE IF resumed THEN stack
                ELSE Push(t, op)
    /\ touch' = IF r.done THEN touch ELSE Drop(touch, r.en.Key)
    /\ latest' = IF r.done THEN latest ELSE [latest EXCEPT ![r.en.Key] = Zero]
    /\ rs' = RsNext(t, St, r.S, CbOf(r.S, ~r.done, r.en), start, own, r.done)

Reset(t) ==
    /\ CanCall(t)
    /\ ResetLikeStep(t, "Reset", CacheReset(St, t), FALSE, ~c.isShutdown, FALSE)
    /\ CacheOnly

Shutdown(t) ==
    /\ CanCall(t)
    /\ ResetLikeStep(t, "Shutdown", CacheShutdown(St, t), FALSE, FALSE, FALSE)
    /\ CacheOnly

\* The callback of a Reset or Shutdown returns; reset locks the mutex again
\* and takes its next turn, or ends.
ResetContinue(t) ==
    /\ stack[t] # <<>>
    /\ Top(t) \in {"Reset", "Shutdown"}
    /\ ~fatal /\ ~mem.fault
    /\ c.mu = Nil
    /\ ResetLikeStep(t, Top(t), ResetResume(St, t, Top(t)), TRUE, FALSE,
                     OwnReset(t))
    /\ CacheOnly

\* The callback of a Put or Delete returns, and so does the call.
CallbackReturn(t) ==
    /\ stack[t] # <<>>
    /\ Top(t) \in {"Put", "Delete"}
    /\ ~fatal
    /\ stack' = Pop(t)
    /\ escaped' = "none"
    /\ rs' = RsNext(t, St, St, <<>>, FALSE, FALSE, FALSE)
    /\ UNCHANGED <<c, mem, fatal, touch, latest>>
    /\ CacheOnly

\* The running callback panics. OnEvict does not stop the panic, which
\* unwinds every cache call on the goroutine's stack and reaches the
\* caller of the outermost one.
CallbackPanic(t) ==
    /\ stack[t] # <<>>
    /\ c.onEvict
    /\ ~OnEvictRecovers
    /\ ~fatal
    /\ Commit(Unwind(St, stack[t]))
    /\ stack' = [stack EXCEPT ![t] = <<>>]
    /\ escaped' = stack[t][1]
    /\ rs' = IF rs.t = t THEN RsNone
             ELSE RsNext(t, St, St, <<>>, FALSE, FALSE, FALSE)
    /\ UNCHANGED <<touch, latest>>
    /\ CacheOnly

\* Size, Capacity and Traverse: r is what the call returned.
ReadStep(t, r) ==
    /\ Commit(r.S)
    /\ escaped' = "none"
    /\ rs' = RsNext(t, St, r.S, <<>>, FALSE, FALSE, FALSE)
    /\ UNCHANGED <<stack, touch, latest>>
Size(t) == CanCall(t) /\ ReadStep(t, CacheSize(St, t)) /\ CacheOnly
CapacityCall(t) ==
    CanCall(t) /\ ReadStep(t, CacheCapacity(St, t)) /\ CacheOnly
Traverse(t, stop) ==
    CanCall(t) /\ ReadStep(t, CacheTraverse(St, t, stop)) /\ CacheOnly

Next ==
    \E t \in Threads :
        \/ \E k \in Keys : Get(t, k)
        \/ \E k \in Keys, v \in Vals : Put(t, k, v)
        \/ \E k \in Keys : Delete(t, k)
        \/ Reset(t)
        \/ Shutdown(t)
        \/ ResetContinue(t)
        \/ CallbackReturn(t)
        \/ CallbackPanic(t)
        \/ Size(t)
        \/ CapacityCall(t)
        \/ \E stop \in 0 .. Capacity : Traverse(t, stop)

Spec == Init /\ [][Next]_vars

\* ------------------------------------------------ cacheutils.GetMultiIter
\* Longest key sequence handed to GetMultiIter.
MaxKeys == 3
KeySeqs == UNION {[1 .. n -> Keys] : n \in 0 .. MaxKeys}
\* The goroutine that runs GetMultiIter.
Caller == 1
\* hitCB(k, v) and missCB(k), as the calls are recorded.
HitCB(k, v) == [cb |-> "hit", key |-> k, val |-> v]
MissCB(k) == [cb |-> "miss", key |-> k, val |-> Zero]
\* One pass of the loop body for the key k the sequence yielded; r is what
\* c.Get returned.
\* A variant of the loop body that goes on to missCB when Get fails.
GmBody_IgnoreErr(g, k, r) ==
    IF r.ok
    THEN [g EXCEPT !.asked = @ + 1, !.calls = Append(@, HitCB(k, r.val))]
    ELSE [g EXCEPT !.asked = @ + 1, !.calls = Append(@, MissCB(k))]
GmBody(g, k, r) ==
    IF r.err # ErrNil
    THEN [g EXCEPT !.asked = @ + 1, !.pc = "done", !.err = r.err]
    ELSE IF r.ok
    THEN [g EXCEPT !.asked = @ + 1, !.calls = Append(@, HitCB(k, r.val))]
    ELSE [g EXCEPT !.asked = @ + 1, !.calls = Append(@, MissCB(k))]
GmStep(t, k, r) == GetStep(t, k, r) /\ gm' = GmBody(gm, k, r)
\* The sequence yields its next key and the loop body runs.
GetMultiStep(t) ==
    /\ gm.pc = "loop" /\ gm.t = t
    /\ gm.asked < Len(gm.keys)
    /\ CanCall(t)
    /\ GmStep(t, gm.keys[gm.asked + 1], CacheGet(St, t, gm.keys[gm.asked + 1]))
    /\ UNCHANGED <<expiryVars, sr, lc, c2, hp>>
\* The sequence is exhausted: GetMultiIter returns nil.
GetMultiReturn(t) ==
    /\ gm.pc = "loop" /\ gm.t = t
    /\ gm.asked = Len(gm.keys)
    /\ gm' = [gm EXCEPT !.pc = "done"]
    /\ UNCHANGED cacheVars
    /\ UNCHANGED <<expiryVars, sr, lc, c2, hp>>

\* GetMultiIter has been called by goroutine Caller on a cache without an
\* eviction callback; the other goroutines use and shut down the cache
\* meanwhile.
InitMulti ==
    /\ CacheInit
    /\ ~c.onEvict
    /\ gm \in {[t |-> Caller, keys |-> q, asked |-> 0, calls |-> <<>>,
                 pc |-> "loop", err |-> ErrNil] : q \in KeySeqs}
    /\ NoExpiryMap
    /\ NoRouter /\ NoLists /\ NoCache2 /\ NoHeap
NextMulti ==
    \/ GetMultiStep(Caller)
    \/ GetMultiReturn(Caller)
    \/ \E t \in Threads \ {Caller} :
          \/ \E k \in Keys, v \in Vals : Put(t, k, v)
          \/ \E k \in Keys : Delete(t, k)
          \/ Shutdown(t)
          \/ ResetContinue(t)
SpecMulti == InitMulti /\ [][NextMulti]_vars

\* -------------------------------------------------------------- heap.Heap
\* The heap's data slice is a sequence; the code's index i is i + 1 here.
\* timeHeapLessThan: t1.Before(t2).
Less(a, b) == a < b
HeapSwap(d, i, j) == [d EXCEPT ![i + 1] = d[j + 1], ![j + 1] = d[i + 1]]
\* The parent index (j - 1) / 2, Go's division truncating towards zero.
Parent(j) == IF j = 0 THEN 0 ELSE (j - 1) \div 2
RECURSIVE HeapUp(_, _)
HeapUp(d, j) ==
    IF Parent(j) = j \/ ~Less(d[j + 1], d[Parent(j) + 1]) THEN d
    ELSE HeapUp(HeapSwap(d, Parent(j), j), Parent(j))
\* The child of i that down compares with i: the right one when it is
\* inside n and less than the left one.
Child(d, i, n) ==
    IF 2 * i + 2 < n /\ Less(d[2 * i + 3], d[2 * i + 2]) THEN 2 * i + 2
    ELSE 2 * i + 1
RECURSIVE HeapDown(_, _, _)
HeapDown(d, i, n) ==
    IF 2 * i + 1 >= n THEN d
    ELSE IF ~Less(d[Child(d, i, n) + 1], d[i + 1]) THEN d
    ELSE HeapDown(HeapSwap(d, i, Child(d, i, n)), Child(d, i, n), n)
HeapPush(d, x) == HeapUp(Append(d, x), Len(d))
\* Pop: e is the data after swap(0, n) and down(0, n).
HeapPopped(e, n) == [data |-> SubSeq(e, 1, n), x |-> e[n + 1]]
HeapPop(d) ==
    HeapPopped(HeapDown(HeapSwap(d, 0, Len(d) - 1), 0, Len(d) - 1), Len(d) - 1)
HeapPeep(d) ==
    IF Len(d) = 0 THEN [val |-> 0, found |-> FALSE]
    ELSE [val |-> d[1], found |-> TRUE]

\* ------------------------------------------------------ internal.ExpiryMap
\* Times are whole numbers of a time unit, from 0 on; time.Time{} is before
\* all of them.
ZeroTime == -1
\* t.Truncate(d) and Register's rounding of t up to its bucket.
Truncate(t, d) == t - (t % d)
\* A variant of the rounding that goes down to the boundary before.
RoundUp_Down(t, d) == Truncate(t, d)
\* A variant of the rounding that always goes to the next boundary.
RoundUp_Next(t, d) == Truncate(t + d, d)
RoundUp(t, d) == IF Truncate(t, d) = t THEN t ELSE Truncate(t + d - 1, d)
\* newIntern: the ExpiryMap of bucket size d; onExpiry says a callback is
\* given. wakeUp is the number of signals in the channel, quit says the
\* channel is closed, mu that the mutex is held, wg is the WaitGroup's
\* counter. expiryTimes gives each bucket's keys; the map objects that
\* hold them, and setPool, are kept apart (see ObjRegister).
NewIntern(d, cb) ==
    [bucketSize |-> d, expiryTimes |-> [x \in {} |-> {}], timeHeap |-> <<>>,
     nextExpiryTime |-> ZeroTime, wakeUp |-> 0, quit |-> FALSE,
     onExpiry |-> cb, mu |-> FALSE, wg |-> 0]
\* r.mu.Lock() at the head of a method and its deferred r.mu.Unlock(); r is
\* what the method returns with the map it leaves.
ExpiryLock(e) == [e EXCEPT !.mu = TRUE]
ExpiryUnlock(e) == [e EXCEPT !.mu = FALSE]
Released(r) == [r EXCEPT !.e = ExpiryUnlock(@)]
\* A variant of New that does not count the worker in the WaitGroup.
WgAdd_None(e) == e
\* New: r.wg.Add(1) before go r.run(); run: defer r.wg.Done().
WgAdd(e) == [e EXCEPT !.wg = @ + 1]
WgDone(e) == [e EXCEPT !.wg = @ - 1]
ExpiryNew(d, cb) == WgAdd(NewIntern(d, cb))
WakeUpNotify(e) == IF e.wakeUp < 1 THEN [e EXCEPT !.wakeUp = 1] ELSE e
\* Register after the rounding: t is the bucket, found says it exists.
BucketAdd(e, t, key, found) ==
    [e EXCEPT !.expiryTimes =
        [x \in DOMAIN @ \cup {t} |->
            IF x # t THEN @[x] ELSE IF found THEN @[x] \cup {key} ELSE {key}]]
\* A variant of Register that pushes the deadline and never wakes the
\* worker.
HeapAdd_NoWake(e, t) == [e EXCEPT !.timeHeap = HeapPush(@, t)]
HeapAdd(e, t) ==
    IF Less(t, e.nextExpiryTime) \/ e.nextExpiryTime = ZeroTime
    THEN WakeUpNotify([e EXCEPT !.timeHeap = HeapPush(@, t)])
    ELSE [e EXCEPT !.timeHeap = HeapPush(@, t)]
RegisterAt(e, key, t, found) ==
    [e |-> IF found THEN BucketAdd(e, t, key, found)
           ELSE HeapAdd(BucketAdd(e, t, key, found), t),
     h |-> t]
ExpiryRegister(e, key, t) ==
    RegisterAt(e, key, RoundUp(t, e.bucketSize),
               RoundUp(t, e.bucketSize) \in DOMAIN e.expiryTimes)
\* Unregister: s is the bucket's set after delete(s, key).
BucketDrop(e, h) ==
    [e EXCEPT !.expiryTimes = [x \in DOMAIN @ \ {h} |-> @[x]]]
\* A variant of Unregister that drops the bucket with the keys left in it.
UnregisterWith_DropAll(e, h, s) == WakeUpNotify(BucketDrop(e, h))
UnregisterWith(e, h, s) ==
    IF s = {} THEN WakeUpNotify(BucketDrop(e, h))
    ELSE [e EXCEPT !.expiryTimes[h] = s]
\* A variant of Unregister that acts only on a bucket's last key.
ExpiryUnregister_LastOnly(e, h, key) ==
    IF h \in DOMAIN e.expiryTimes /\ e.expiryTimes[h] = {key}
    THEN UnregisterWith(e, h, {})
    ELSE e
ExpiryUnregister(e, h, key) ==
    IF h \in DOMAIN e.expiryTimes
    THEN UnregisterWith(e, h, e.expiryTimes[h] \ {key})
    ELSE e

\* A *time.Timer: set says the pointer is not nil, on that the timer is
\* running, at when it fires. A timer that was stopped, reset or received
\* from delivers nothing until it fires again (its channel holds no stale
\* tick), and when it would have fired no longer matters.
NilTimer == [set |-> FALSE, on |-> FALSE, at |-> 0]
Stopped == [set |-> TRUE, on |-> FALSE, at |-> 0]
StopTimer(timer) == IF timer.set THEN Stopped ELSE timer
Delay(expiredAt, t) == IF expiredAt - t < 0 THEN 0 ELSE expiredAt - t
\* setupTimer at time t: p is what timeHeap.Peep returned.
\* A variant of setupTimer that arms the timer with no delay.
SetupWith_NoDelay(e, p, t) ==
    IF ~p.found THEN [e |-> e, timer |-> NilTimer]
    ELSE [e |-> [e EXCEPT !.nextExpiryTime = p.val],
          timer |-> [set |-> TRUE, on |-> TRUE, at |-> t]]
SetupWith(e, p, t) ==
    IF ~p.found THEN [e |-> e, timer |-> NilTimer]
    ELSE [e |-> [e EXCEPT !.nextExpiryTime = p.val],
          timer |-> [set |-> TRUE, on |-> TRUE, at |-> t + Delay(p.val, t)]]
SetupTimer(e, t) == SetupWith(e, HeapPeep(e.timeHeap), t)
\* getExpiryRecords: expiredAt is what Peep returned, e has the heap popped.
NoRecords(e) == [e |-> e, s |-> {}, dl |-> ZeroTime]
Detach(e, expiredAt) ==
    IF expiredAt \notin DOMAIN e.expiryTimes THEN NoRecords(e)
    ELSE [e |-> BucketDrop(e, expiredAt), s |-> e.expiryTimes[expiredAt],
          dl |-> expiredAt]
GetExpiryRecords(e) ==
    IF ~HeapPeep(e.timeHeap).found THEN NoRecords(e)
    ELSE Detach([e EXCEPT !.timeHeap = HeapPop(@).data],
                HeapPeep(e.timeHeap).val)

\* The keys, the bucket size, the last instant of the clock and the most
\* deadlines the heap is let to hold.
NumEKeys == 2
EKeys == 1 .. NumEKeys
BucketWidth == 2
MaxTime == 4
MaxHeap == 3
Times == 0 .. MaxTime

\* History. pend: the registrations <<key, Handle returned, boundary>>
\* made and neither unregistered nor detached, boundary the least multiple
\* of the bucket size at or after the time given; det: the registrations
\* the last detached bucket stood for; log: the deadlines of the buckets
\* drained since the last Register.
Boundary(t, d) ==
    CHOOSE b \in t .. (t + d) :
        b % d = 0 /\ \A x \in t .. (t + d) : x % d = 0 => b <= x
NoHist == [pend |-> {}, det |-> {}, log |-> <<>>]
DueAt(pend, dl) == {r \in pend : r[3] = dl}
KeysIn(regs) == {r[1] : r \in regs}

\* The expirySet map objects, each a record. keys: what the map holds; at:
\* the deadlines whose r.expiryTimes entry is this object; rep: the
\* worker's expiredRecords is this object; pooled: r.setPool holds it. An
\* object that nothing holds is collected. Objects have no names: two
\* that differ in nothing are both empty objects of the pool, and as the
\* pool may drop what it holds at any time, it keeps one of them.
NoObjs == {}
Held(x) == x.at # {} \/ x.rep \/ x.pooled
Swap(o, x, y) == {z \in (o \ {x}) \cup {y} : Held(z)}
HasAt(o, t) == \E x \in o : t \in x.at
ObjAt(o, t) == CHOOSE x \in o : t \in x.at
\* setPool's New: make(expirySet[K]), here already holding key for t.
NewSet(t, key) == [keys |-> {key}, at |-> {t}, rep |-> FALSE, pooled |-> FALSE]
\* Register: s, found := r.expiryTimes[t]; if !found, s is setPool.Get(),
\* an object of the pool or a new one; s[key] = struct{}{}. The outcomes.
ObjRegister(o, t, key) ==
    IF HasAt(o, t)
    THEN {Swap(o, ObjAt(o, t), [ObjAt(o, t) EXCEPT !.keys = @ \cup {key}])}
    ELSE {Swap(o, x, [x EXCEPT !.pooled = FALSE, !.at = @ \cup {t},
                               !.keys = @ \cup {key}]) :
             x \in {y \in o : y.pooled}}
         \cup {o \cup {NewSet(t, key)}}
\* Unregister: delete(s, key) and, of an emptied s, the delete from
\* r.expiryTimes and the Put (len(s) is 0, within any avgSetSize*2),
\* after which the pool keeps the object or drops it.
ObjEmptied(o, x, h, key) ==
    IF x.keys \ {key} # {} THEN {Swap(o, x, [x EXCEPT !.keys = @ \ {key}])}
    ELSE {Swap(o, x, [x EXCEPT !.keys = {}, !.at = @ \ {h}, !.pooled = b]) :
             b \in {TRUE, x.pooled}}
ObjUnregister(o, h, key) ==
    IF HasAt(o, h) THEN ObjEmptied(o, ObjAt(o, h), h, key) ELSE {o}
\* expiredRecords is assigned anew: it no longer holds what it held.
Unrep(o) == {y \in {[x EXCEPT !.rep = FALSE] : x \in o} : Held(y)}
\* A variant of getExpiryRecords that leaves the set in r.expiryTimes.
ObjTake_Keep(o, x, t) == Swap(o, x, [x EXCEPT !.rep = TRUE])
\* getExpiryRecords: delete(r.expiryTimes, expiredAt); return s.
ObjTake(o, x, t) == Swap(o, x, [x EXCEPT !.at = @ \ {t}, !.rep = TRUE])
\* getExpiryRecords: p is what Peep returned; nil when there is no bucket.
ObjDetach(o, p) ==
    IF p.found /\ HasAt(o, p.val)
    THEN ObjTake(Unrep(o), ObjAt(Unrep(o), p.val), p.val)
    ELSE Unrep(o)
\* run, after onExpiry: a set within avgSetSize*2 is cleared and Put (and
\* then kept by the pool or dropped), a larger one is let go of as it is.
\* avgSetSize is not kept: each of these is an outcome.
ObjRecycled(o, x) ==
    {Swap(o, x, [x EXCEPT !.keys = {}, !.rep = FALSE, !.pooled = b]) :
        b \in {TRUE, x.pooled}}
    \cup {Swap(o, x, [x EXCEPT !.rep = FALSE])}
ObjRecycle(o) ==
    IF \E x \in o : x.rep THEN ObjRecycled(o, CHOOSE x \in o : x.rep) ELSE {o}

\* A step of the ExpiryMap alone.
ExpiryOnly == UNCHANGED <<cacheVars, gm, sr, lc, c2, hp>>
\* The worker before its first pass of run()'s loop.
Idle == [pc |-> "setup", timer |-> NilTimer, rec |-> {}, dl |-> ZeroTime]

\* Register(key, t): r is what the code returned with the map it left.
RegisterStep(key, t, r) ==
    /\ Len(r.e.timeHeap) <= MaxHeap
    /\ em' = r.e
    /\ objs' \in ObjRegister(objs, r.h, key)
    /\ hist' = [hist EXCEPT
                   !.pend = @ \cup {<<key, r.h, Boundary(t, em.bucketSize)>>},
                   !.log = <<>>]
    /\ UNCHANGED <<run, now, sd>>
    /\ ExpiryOnly
RegisterCall(key, t) ==
    /\ ~em.mu
    /\ RegisterStep(key, t, Released(ExpiryRegister(ExpiryLock(em), key, t)))
\* Unregister(h, key) with the Handle h returned for a pending registration
\* reg of key.
UnregisterCall(reg) ==
    /\ ~em.mu
    /\ em' = ExpiryUnlock(ExpiryUnregister(ExpiryLock(em), reg[2], reg[1]))
    /\ objs' \in ObjUnregister(objs, reg[2], reg[1])
    /\ hist' = [hist EXCEPT !.pend = {r \in @ : r[1] # reg[1] \/ r[2] # reg[2]}]
    /\ UNCHANGED <<run, now, sd>>
    /\ ExpiryOnly
\* Shutdown: close(r.quit); the caller then waits in r.wg.Wait().
ShutdownCall ==
    /\ sd = "none"
    /\ ~em.quit
    /\ em' = [em EXCEPT !.quit = TRUE]
    /\ sd' = "wait"
    /\ UNCHANGED <<run, now, hist, objs>>
    /\ ExpiryOnly
\* Shutdown: r.wg.Wait() returns, and Shutdown with it.
ShutdownReturn ==
    /\ sd = "wait"
    /\ em.wg = 0
    /\ sd' = "done"
    /\ UNCHANGED <<em, run, now, hist, objs>>
    /\ ExpiryOnly
\* The clock advances.
Tick ==
    /\ now < MaxTime
    /\ now' = now + 1
    /\ UNCHANGED <<em, run, hist, sd, objs>>
    /\ ExpiryOnly

\* run(): timer = r.setupTimer(timer)
WorkerSetupStep(r) ==
    /\ em' = r.e
    /\ run' = [run EXCEPT !.pc = "wait", !.timer = r.timer]
    /\ UNCHANGED <<now, hist, sd, objs>>
    /\ ExpiryOnly
WorkerSetup ==
    /\ run.pc = "setup"
    /\ ~em.mu
    /\ WorkerSetupStep(Released(SetupTimer(ExpiryLock(em), now)))
\* waitEvent: the select takes any case that is ready. On quit run()
\* returns, and its deferred r.wg.Done() runs.
WorkerQuit ==
    /\ run.pc = "wait" /\ em.quit
    /\ em' = WgDone(em)
    /\ run' = [run EXCEPT !.pc = "exit", !.timer = StopTimer(@)]
    /\ UNCHANGED <<now, hist, sd, objs>>
    /\ ExpiryOnly
WorkerWake ==
    /\ run.pc = "wait" /\ em.wakeUp > 0
    /\ em' = [em EXCEPT !.wakeUp = @ - 1]
    /\ run' = [run EXCEPT !.pc = "setup", !.timer = StopTimer(@)]
    /\ UNCHANGED <<now, hist, sd, objs>>
    /\ ExpiryOnly
WorkerTick ==
    /\ run.pc = "wait"
    /\ run.timer.set /\ run.timer.on /\ now >= run.timer.at
    /\ run' = [run EXCEPT !.pc = "tick", !.timer = StopTimer(@)]
    /\ UNCHANGED <<em, now, hist, sd, objs>>
    /\ ExpiryOnly
\* History of a call of getExpiryRecords that returned r: due are the
\* registrations pending for the deadline at the top of the heap.
Drained(r, due) ==
    [hist EXCEPT !.pend = @ \ due, !.det = due,
                 !.log = IF r.s = {} /\ due = {} THEN @ ELSE Append(@, r.dl)]
DueNow == IF em.timeHeap = <<>> THEN {}
          ELSE DueAt(hist.pend, HeapPeep(em.timeHeap).val)
\* run(): expiredRecords := r.getExpiryRecords(), and with a set that is
\* not empty the call of r.onExpiry(expiredRecords) begins.
WorkerGetStep(r) ==
    /\ em' = r.e
    /\ run' = [run EXCEPT !.pc = IF r.s = {} THEN "setup" ELSE "call",
                          !.rec = r.s, !.dl = r.dl]
    /\ objs' = ObjDetach(objs, HeapPeep(em.timeHeap))
    /\ hist' = Drained(r, DueNow)
    /\ UNCHANGED <<now, sd>>
    /\ ExpiryOnly
WorkerGet ==
    /\ run.pc = "tick"
    /\ ~em.mu
    /\ WorkerGetStep(Released(GetExpiryRecords(ExpiryLock(em))))
\* run(): r.onExpiry(expiredRecords) returns; then clear(expiredRecords)
\* and r.setPool.Put(expiredRecords).
WorkerCall ==
    /\ run.pc = "call"
    /\ run' = [run EXCEPT !.pc = "setup", !.rec = {}, !.dl = ZeroTime]
    /\ objs' \in ObjRecycle(objs)
    /\ hist' = [hist EXCEPT !.det = {}]
    /\ UNCHANGED <<em, now, sd>>
    /\ ExpiryOnly

\* internal.New: the map and its worker, started at time 0.
InitExpiry ==
    /\ CacheInit /\ c.onEvict
    /\ gm = GmNone
    /\ em = ExpiryNew(BucketWidth, TRUE)
    /\ run = Idle
    /\ now = 0
    /\ hist = NoHist
    /\ sd = "none"
    /\ objs = NoObjs
    /\ NoRouter /\ NoLists /\ NoCache2 /\ NoHeap
NextExpiry ==
    \/ \E key \in EKeys, t \in Times : RegisterCall(key, t)
    \/ \E reg \in hist.pend : UnregisterCall(reg)
    \/ ShutdownCall
    \/ ShutdownReturn
    \/ Tick
    \/ WorkerSetup
    \/ WorkerQuit
    \/ WorkerWake
    \/ WorkerTick
    \/ WorkerGet
    \/ WorkerCall
SpecExpiry == InitExpiry /\ [][NextExpiry]_vars

\* The map with Shutdown never called and MaxLiveCalls calls of Register
\* and Unregister in all, counted in hist.calls: the worker goroutine is
\* scheduled whenever a step of run() can be taken (a select with a ready
\* case takes one of them), and the clock goes on to its last instant.
MaxLiveCalls == 3
InitExpiryLive ==
    /\ CacheInit /\ c.onEvict
    /\ gm = GmNone
    /\ em = ExpiryNew(BucketWidth, TRUE)
    /\ run = Idle
    /\ now = 0
    /\ hist = [pend |-> {}, det |-> {}, log |-> <<>>, calls |-> 0]
    /\ sd = "none"
    /\ objs = NoObjs
    /\ NoRouter /\ NoLists /\ NoCache2 /\ NoHeap
LiveRegisterStep(key, t, r) ==
    /\ em' = r.e
    /\ objs' \in ObjRegister(objs, r.h, key)
    /\ hist' = [hist EXCEPT
                   !.pend = @ \cup {<<key, r.h, Boundary(t, em.bucketSize)>>},
                   !.log = <<>>,
                   !.calls = @ + 1]
    /\ UNCHANGED <<run, now, sd>>
    /\ ExpiryOnly
LiveRegister(key, t) ==
    /\ hist.calls < MaxLiveCalls
    /\ ~em.mu
    /\ LiveRegisterStep(key, t,
                        Released(ExpiryRegister(ExpiryLock(em), key, t)))
LiveUnregister(reg) ==
    /\ hist.calls < MaxLiveCalls
    /\ ~em.mu
    /\ em' = ExpiryUnlock(ExpiryUnregister(ExpiryLock(em), reg[2], reg[1]))
    /\ objs' \in ObjUnregister(objs, reg[2], reg[1])
    /\ hist' = [hist EXCEPT
                   !.pend = {r \in @ : r[1] # reg[1] \/ r[2] # reg[2]},
                   !.calls = @ + 1]
    /\ UNCHANGED <<run, now, sd>>
    /\ ExpiryOnly
Worker == WorkerSetup \/ WorkerWake \/ WorkerTick \/ WorkerGet \/ WorkerCall
NextExpiryLive ==
    \/ \E key \in EKeys, t \in Times : LiveRegister(key, t)
    \/ \E reg \in hist.pend : LiveUnregister(reg)
    \/ Tick
    \/ WorkerSetup
    \/ WorkerWake
    \/ WorkerTick
    \/ WorkerGet
    \/ WorkerCall
SpecExpiryLive ==
    /\ InitExpiryLive
    /\ [][NextExpiryLive]_vars
    /\ WF_vars(Worker)
    /\ WF_vars(Tick)

\* TestTimeHeap's registrations: an ExpiryMap of bucket size 30 s built by
\* newIntern with no callback and no worker, the clock standing at the
\* base time; times in seconds.
Width30s == 30
FiveSec == 5
ThirtyFiveSec == 35
TestKeys == {1, 2, 4}
Offset(key) == IF key = 1 THEN 0 ELSE IF key = 2 THEN FiveSec ELSE ThirtyFiveSec
BaseTimes == 0 .. (2 * Width30s - 1)
\* Register(1, t), Register(2, t + 5 s) and Register(4, t + 35 s), each once.
ExampleRegister(key) ==
    /\ key \notin KeysIn(hist.pend)
    /\ hist.log = <<>>
    /\ RegisterCall(key, now + Offset(key))
\* r := m.getExpiryRecords(), called once the three keys are registered.
DrainStep(r) ==
    /\ em' = r.e
    /\ run' = [run EXCEPT !.rec = r.s, !.dl = r.dl]
    /\ objs' = ObjDetach(objs, HeapPeep(em.timeHeap))
    /\ hist' = Drained(r, DueNow)
    /\ UNCHANGED <<now, sd>>
    /\ ExpiryOnly
DrainCall ==
    /\ KeysIn(hist.pend) = TestKeys \/ hist.log # <<>>
    /\ em.timeHeap # <<>>
    /\ DrainStep(GetExpiryRecords(em))
InitExample ==
    /\ CacheInit /\ c.onEvict
    /\ gm = GmNone
    /\ em = NewIntern(Width30s, FALSE)
    /\ run = [Idle EXCEPT !.pc = "none"]
    /\ now \in BaseTimes
    /\ hist = NoHist
    /\ sd = "none"
    /\ objs = NoObjs
    /\ NoRouter /\ NoLists /\ NoCache2 /\ NoHeap
NextExample ==
    \/ \E key \in TestKeys : ExampleRegister(key)
    \/ DrainCall
SpecExample == InitExample /\ [][NextExample]_vars

\* ------------------------------------------------------------ shard: options
\* Go's uint, UintBits wide here: sums, products and shifts wrap around.
UintBits == 10
UintMod == 2 ^ UintBits
MaxUint == UintMod - 1
Wrap(x) == x % UintMod
\* bits.Len(x): the number of bits needed to write x.
RECURSIVE BitsLen(_)
BitsLen(x) == IF x = 0 THEN 0 ELSE 1 + BitsLen(x \div 2)
\* A variant of nextPowerOfTwo that shifts by one bit less.
nextPowerOfTwo_Half(n) == IF n <= 2 THEN 1 ELSE Wrap(2 ^ (BitsLen(n - 1) - 1))
nextPowerOfTwo(n) == IF n <= 1 THEN 1 ELSE Wrap(2 ^ BitsLen(n - 1))
CpuMultiplier == 4
ShardsCap == 256
rawByCapacity(capacity, targetPerShard) ==
    IF targetPerShard > 0
    THEN Wrap(capacity + targetPerShard - 1) \div targetPerShard
    ELSE 0
rawByCPU(cpuCount) ==
    Wrap((IF cpuCount = 0 THEN 1 ELSE cpuCount) * CpuMultiplier)
Larger(a, b) == IF b > a THEN b ELSE a
Smaller(a, b) == IF b < a THEN b ELSE a
computeMaxshards(capacity, targetPerShard, minShards, cpuCount) ==
    IF minShards = 0
    THEN nextPowerOfTwo(
            Smaller(nextPowerOfTwo(Larger(rawByCapacity(capacity, targetPerShard),
                                          rawByCPU(cpuCount))),
                    ShardsCap))
    ELSE nextPowerOfTwo(minShards)
\* toOptions: perShardCapacity, for a maxShards that is not 0.
perShardCapacity(capacity, maxShards) ==
    Wrap(capacity + maxShards - 1) \div maxShards

\* The values the four arguments are drawn from: small ones, those around
\* the cap of 256, around half of the largest uint, and the largest.
Capacities ==
    {0, 1, 2, 3, 8, 9, 100, ShardsCap - 1, ShardsCap, ShardsCap + 1,
     2 * ShardsCap + 1, MaxUint - 1, MaxUint}
Targets == {0, 1, 2, 3, 10, UintMod \div 8, UintMod \div 2, MaxUint}
MinShardss ==
    {0, 1, 2, 3, 4, 5, ShardsCap - 1, ShardsCap, ShardsCap + 1,
     UintMod \div 2, UintMod \div 2 + 1, MaxUint}
CpuCounts == {0, 1, 2, 8, 64, 65, UintMod \div 4, MaxUint}
\* computeMaxshards is about to be called with the four arguments.
InitCompute ==
    /\ CacheInit /\ c.onEvict
    /\ gm = GmNone
    /\ NoExpiryMap /\ NoLists /\ NoCache2 /\ NoHeap
    /\ sr \in {[capacity |-> a, targetPerShard |-> b, minShards |-> m,
                 cpuCount |-> n, pc |-> "call", maxShards |-> 0,
                 perShard |-> 0] :
                  a \in Capacities, b \in Targets, m \in MinShardss,
                  n \in CpuCounts}
\* opt.maxShards = computeMaxshards(...), as toOptions calls it through
\* ComputeMaxshards, which passes numCPU for cpuCount.
Compute ==
    /\ sr.pc = "call"
    /\ sr' = [sr EXCEPT !.pc = "computed",
                        !.maxShards =
                           computeMaxshards(sr.capacity, sr.targetPerShard,
                                            sr.minShards, sr.cpuCount)]
    /\ UNCHANGED <<cacheVars, gm, expiryVars, lc, c2, hp>>
\* toOptions: perShardCapacity := (o.Capacity + opt.maxShards - 1) /
\* opt.maxShards, a run-time panic (integer divide by zero) for maxShards 0.
PerShard ==
    /\ sr.pc = "computed"
    /\ sr' = IF sr.maxShards = 0 THEN [sr EXCEPT !.pc = "panic"]
             ELSE [sr EXCEPT !.pc = "done",
                             !.perShard = perShardCapacity(sr.capacity,
                                                           sr.maxShards)]
    /\ UNCHANGED <<cacheVars, gm, expiryVars, lc, c2, hp>>
NextCompute == Compute \/ PerShard
SpecCompute == InitCompute /\ [][NextCompute]_vars

\* ------------------------------------------------------------- shard: router
\* Bounds of the router's runs: the largest MinShards option, the number of
\* keys, and the number of calls of the one caller of Get, Put, Delete,
\* Size, Capacity and Traverse.
MaxMinShards == 2
NumRKeys == 2
MaxOps == 2
RKeys == 0 .. NumRKeys - 1
RVals == 1 .. NumVals
\* The callers of Shutdown, one call each.
ShutdownCallers == {1, 2}
\* Options.ShardsFn: nil, or one of three selectors of (key, maxShards):
\* the key reduced by the shard count, the key itself, and a value far
\* above any shard count.
Selectors == {"nil", "mod", "key", "far"}
ShardsFn(f, key, n) ==
    CASE f = "mod" -> key % n
      [] f = "key" -> key
      [] f = "far" -> MaxUint - key
\* Options.CacherMaker: nil (-1), a factory that never fails (0), or one
\* whose j-th call returns an error.
MakerNil == 0 - 1
Makers == MakerNil .. MaxMinShards
RouterOptions ==
    [Capacity : {0, 2, 3}, TargetPerShard : {0}, MinShards : 1 .. MaxMinShards,
     ShardsFn : Selectors, CacherMaker : Makers]
NoErr == [kind |-> "nil", Message |-> ""]
ErrorInvalidOptions(msg) == [kind |-> "InvalidOptions", Message |-> msg]
\* The error a failing CacherMaker returns.
MakerErr == [kind |-> "maker", Message |-> "no shard"]
\* toOptions: the three checks in order, then the shard count and the
\* capacity the wrapped cacherMaker passes on (1 stands for numCPU, which
\* an explicit MinShards makes irrelevant).
toOptions(o) ==
    IF o.Capacity = 0
    THEN [err |-> ErrorInvalidOptions("capacity must be positive"),
          maxShards |-> 0, perShard |-> 0]
    ELSE IF o.ShardsFn = "nil"
    THEN [err |-> ErrorInvalidOptions("shardsFn cannot be nil"),
          maxShards |-> 0, perShard |-> 0]
    ELSE IF o.CacherMaker = MakerNil
    THEN [err |-> ErrorInvalidOptions("cacherMaker cannot be nil"),
          maxShards |-> 0, perShard |-> 0]
    ELSE LET n == computeMaxshards(o.Capacity, o.TargetPerShard,
                                   o.MinShards, 1)
         IN  [err |-> NoErr, maxShards |-> n,
              perShard |-> perShardCapacity(o.Capacity, n)]
\* A shard as the router sees it through iface.Cache: an LRU of the given
\* capacity, most recently used first, that counts the Shutdown calls it
\* receives.
NewShard(capacity) == [items |-> <<>>, cap |-> capacity, down |-> 0]
\* What a slot of c.shards holds: the shard the factory built for it
\* ("live"), the no-op sentinel &c.nopCache ("nop"), nothing ("nil"), or,
\* while Shutdown's unsynchronised store of the two-word interface value is
\* under way, "half".
NoCache == [shards |-> <<>>, mock |-> <<>>]
\* A variant of newCache that goes on after a failed cacherMaker call and
\* returns the cache with that slot empty.
newCache_KeepGoing(maxShards, shardsFn, cacherMaker, perShard) ==
    [err |-> NoErr,
     shards |-> [i \in 1 .. maxShards |->
                    IF i = cacherMaker THEN "nil" ELSE "live"],
     mock |-> [i \in 1 .. maxShards |-> NewShard(perShard)]]
\* newCache: the three checks, then one cacherMaker call per slot; the
\* first error is returned with a nil cache.
newCache(maxShards, shardsFn, cacherMaker, perShard) ==
    IF maxShards = 0
    THEN [err |-> ErrorInvalidOptions("maxShards must be positive")]
            @@ NoCache
    ELSE IF shardsFn = "nil"
    THEN [err |-> ErrorInvalidOptions("shardsFn cannot be nil")] @@ NoCache
    ELSE IF cacherMaker = MakerNil
    THEN [err |-> ErrorInvalidOptions("cacherMaker cannot be nil")]
            @@ NoCache
    ELSE IF cacherMaker \in 1 .. maxShards
    THEN [err |-> MakerErr] @@ NoCache
    ELSE [err |-> NoErr,
          shards |-> [i \in 1 .. maxShards |-> "live"],
          mock |-> [i \in 1 .. maxShards |-> NewShard(perShard)]]
\* No call of the caller in progress, and none returned yet.
NoOp == [kind |-> "none"]
NoRet == [kind |-> "none", n |-> 0]
IdleCaller == [pc |-> "idle", i |-> 0]
\* The two revisions of the router in the sources: that of
\* src/shard/shard.go, whose Traverse hands fn to every shard, and the
\* later one, whose Traverse breaks out of its loop once fn has returned
\* false. They differ in nothing else that a caller can observe.
Revisions == {"shard.go", "stop"}
Breaks(r) == r.rev = "stop"
\* The options New is about to be called with; budget is the number of
\* calls the caller will make.
InitRouter(budget) ==
    /\ CacheInit /\ c.onEvict
    /\ gm = GmNone
    /\ NoExpiryMap /\ NoLists /\ NoCache2 /\ NoHeap
    /\ \E o \in RouterOptions, rev \in Revisions :
          sr = [pc |-> "options", opt |-> o, rev |-> rev, err |-> NoErr, maxShards |-> 0,
                shards |-> <<>>, mock |-> <<>>, fault |-> FALSE,
                op |-> NoOp, ret |-> NoRet, ops |-> 0,
                routed |-> [k \in RKeys |-> {}],
                sd |-> [t \in ShutdownCallers |-> IdleCaller],
                raced |-> FALSE, budget |-> budget]
InitShard == InitRouter(MaxOps)
RouterOnly == UNCHANGED <<cacheVars, gm, expiryVars, lc, c2, hp>>
\* New: toOptions, then newCache unless toOptions failed.
New ==
    /\ sr.pc = "options"
    /\ LET o1 == toOptions(sr.opt)
           r == newCache(o1.maxShards, sr.opt.ShardsFn, sr.opt.CacherMaker,
                         o1.perShard)
       IN  sr' = IF o1.err # NoErr
                 THEN [sr EXCEPT !.pc = "failed", !.err = o1.err]
                 ELSE IF r.err # NoErr
                 THEN [sr EXCEPT !.pc = "failed", !.err = r.err]
                 ELSE [sr EXCEPT !.pc = "ready", !.maxShards = o1.maxShards,
                                 !.shards = r.shards, !.mock = r.mock]
    /\ RouterOnly
\* A variant of keyToShardIndex that always selects the first shard.
keyToShardIndex_First(r, key) == 0
\* keyToShardIndex, counted from 0 as in the source: slot idx is
\* r.shards[idx + 1].
keyToShardIndex(r, key) ==
    LET idx == ShardsFn(r.opt.ShardsFn, key, r.maxShards)
    IN  IF idx >= r.maxShards THEN idx % r.maxShards ELSE idx
\* What a read of a slot can yield. A read that overlaps Shutdown's store
\* is a data race: it sees the old value, the new one, or the type word
\* of one with the data word of the other ("torn").
Views(slot) ==
    CASE slot = "live" -> {"live"}
      [] slot = "nop" -> {"nop"}
      [] slot = "half" -> {"live", "nop", "torn"}
\* isShutdown: the type assertion on c.shards[0] looks at the type word
\* alone.
isShutdown(r) ==
    CASE r.shards[1] = "live" -> {FALSE}
      [] r.shards[1] = "nop" -> {TRUE}
      [] r.shards[1] = "half" -> {FALSE, TRUE}
\* The shard's operations.
Find(items, key) ==
    IF \E j \in DOMAIN items : items[j][1] = key
    THEN CHOOSE j \in DOMAIN items : items[j][1] = key
    ELSE 0
Without(items, j) == SubSeq(items, 1, j - 1) \o SubSeq(items, j + 1, Len(items))
ShardGet(s, key) ==
    LET j == Find(s.items, key)
    IN  IF j = 0 THEN [s |-> s, hit |-> FALSE, val |-> 0]
        ELSE [s |-> [s EXCEPT !.items = <<s.items[j]>> \o Without(s.items, j)],
              hit |-> TRUE, val |-> s.items[j][2]]
ShardPut(s, key, val) ==
    LET j == Find(s.items, key)
        all == <<<<key, val>>>> \o
                  (IF j = 0 THEN s.items ELSE Without(s.items, j))
    IN  [s |-> [s EXCEPT !.items =
                   IF Len(all) > s.cap THEN SubSeq(all, 1, s.cap) ELSE all],
         hit |-> j # 0, val |-> val]
ShardDelete(s, key) ==
    LET j == Find(s.items, key)
    IN  IF j = 0 THEN [s |-> s, hit |-> FALSE, val |-> 0]
        ELSE [s |-> [s EXCEPT !.items = Without(s.items, j)],
              hit |-> TRUE, val |-> s.items[j][2]]
\* nop.Cache: every method does nothing and returns the zero value.
NopCall(s) == [s |-> s, hit |-> FALSE, val |-> 0]
\* Some Shutdown call has returned.
ShutdownReturned(r) == \E t \in ShutdownCallers : r.sd[t].pc = "returned"
\* The caller may begin a call.
RouterCanCall ==
    /\ sr.pc = "ready" /\ ~sr.fault
    /\ sr.op = NoOp /\ sr.ops < sr.budget
\* A call with a key: c.shards[c.keyToShardIndex(key)].<method>(ctx, key).
\* val is the value of a Put.
Keyed(kind, key, val) ==
    /\ RouterCanCall
    /\ LET idx == keyToShardIndex(sr, key)
       IN  \E view \in Views(sr.shards[idx + 1]) :
              LET s == sr.mock[idx + 1]
                  r == CASE view # "live" -> NopCall(s)
                         [] kind = "Get" -> ShardGet(s, key)
                         [] kind = "Put" -> ShardPut(s, key, val)
                         [] kind = "Delete" -> ShardDelete(s, key)
              IN  sr' = [sr EXCEPT
                           !.mock[idx + 1] = r.s,
                           !.fault = (view = "torn"),
                           !.ops = @ + 1,
                           !.routed[key] = @ \cup {idx},
                           !.ret = [kind |-> kind, n |-> sr.ops + 1,
                                    key |-> key, idx |-> idx, view |-> view,
                                    hit |-> r.hit, val |-> r.val,
                                    post |-> ShutdownReturned(sr)]]
    /\ RouterOnly
RouterGet(key) == Keyed("Get", key, 0)
RouterPut(key, val) == Keyed("Put", key, val)
RouterDelete(key) == Keyed("Delete", key, 0)
\* fn of Traverse returns false at key stopAt, and true at every key when
\* stopAt is NoStop.
NoStop == 0 - 1
\* shard.Traverse(ctx, fn'): the entries fn is called with, up to and
\* including the first at which it returns false.
ShardTraverse(s, stopAt) ==
    LET j == Find(s.items, stopAt)
    IN  [seen |-> IF j = 0 THEN s.items ELSE SubSeq(s.items, 1, j),
         stop |-> j # 0]
\* The result of a call that went over the slots.
Result(op, n) ==
    [kind |-> op.kind, n |-> n, shut |-> FALSE, total |-> op.total,
     seen |-> op.seen, live |-> op.live, nops |-> op.nops, post |-> op.post,
     stopAt |-> op.stopAt]
\* Size, Capacity, Traverse: if c.isShutdown() { return }, else the loop
\* over the slots begins.
LoopCall(kind, stopAt) ==
    /\ RouterCanCall
    /\ \E down \in isShutdown(sr) :
          LET op == [kind |-> kind, i |-> 1, total |-> 0, seen |-> <<>>,
                     live |-> 0, nops |-> 0, stopAt |-> stopAt,
                     post |-> ShutdownReturned(sr)]
          IN  sr' = IF down
                    THEN [sr EXCEPT !.ops = @ + 1,
                                    !.ret = [Result(op, sr.ops + 1)
                                                EXCEPT !.shut = TRUE]]
                    ELSE [sr EXCEPT !.ops = @ + 1, !.op = op]
    /\ RouterOnly
\* One turn of for _, shard := range c.shards: the slot is read and the
\* shard's method called; the call returns after the last slot, or, in
\* the revision that breaks, when fn has returned false.
LoopStep(kind) ==
    /\ sr.pc = "ready" /\ ~sr.fault
    /\ sr.op.kind = kind
    /\ \E view \in Views(sr.shards[sr.op.i]) :
          LET s == sr.mock[sr.op.i]
              tr == IF kind = "Traverse" /\ view = "live"
                    THEN ShardTraverse(s, sr.op.stopAt)
                    ELSE [seen |-> <<>>, stop |-> FALSE]
              add == CASE view # "live" -> 0
                       [] kind = "Size" -> Len(s.items)
                       [] kind = "Capacity" -> s.cap
                       [] OTHER -> 0
              op == [sr.op EXCEPT
                       !.i = @ + 1, !.total = @ + add,
                       !.seen = @ \o tr.seen,
                       !.live = @ + (IF view = "live" THEN 1 ELSE 0),
                       !.nops = @ + (IF view = "nop" THEN 1 ELSE 0)]
          IN  sr' = IF view = "torn" THEN [sr EXCEPT !.fault = TRUE]
                    ELSE IF (tr.stop /\ Breaks(sr)) \/ sr.op.i = sr.maxShards
                    THEN [sr EXCEPT !.op = NoOp, !.ret = Result(op, sr.ops)]
                    ELSE [sr EXCEPT !.op = op]
    /\ RouterOnly
RouterSizeCall == LoopCall("Size", NoStop)
RouterSizeStep == LoopStep("Size")
RouterCapacityCall == LoopCall("Capacity", NoStop)
RouterCapacityStep == LoopStep("Capacity")
RouterTraverseCall(stopAt) == LoopCall("Traverse", stopAt)
RouterTraverseStep == LoopStep("Traverse")
\* Caller t is inside the loop of Shutdown.
InLoop(r, t) == r.sd[t].pc \in {"loop", "store"}
\* Shutdown: if c.isShutdown() { return }, else the loop begins. raced
\* records that two Shutdown calls were under way at once.
RouterShutdownCall(t) ==
    /\ sr.pc = "ready" /\ ~sr.fault
    /\ sr.sd[t].pc = "idle"
    /\ \E down \in isShutdown(sr) :
          sr' = [sr EXCEPT
                   !.sd[t] = IF down THEN [pc |-> "returned", i |-> 0]
                             ELSE [pc |-> "loop", i |-> 1],
                   !.raced = @ \/ \E u \in ShutdownCallers \ {t} :
                                     InLoop(sr, u)]
    /\ RouterOnly
\* c.shards[i].Shutdown(ctx), and the store of &c.nopCache into the slot
\* begins.
ShutdownShard(t) ==
    /\ sr.pc = "ready" /\ ~sr.fault
    /\ sr.sd[t].pc = "loop"
    /\ LET i == sr.sd[t].i
       IN  \E view \in Views(sr.shards[i]) :
              sr' = IF view = "torn" THEN [sr EXCEPT !.fault = TRUE]
                    ELSE [sr EXCEPT
                            !.mock[i].down =
                               IF view = "live" THEN @ + 1 ELSE @,
                            !.shards[i] = IF @ = "live" THEN "half" ELSE @,
                            !.sd[t].pc = "store"]
    /\ RouterOnly
\* A variant of ShutdownStore that leaves the shard in the slot.
ShutdownStore_Live(t) ==
    /\ sr.pc = "ready" /\ ~sr.fault
    /\ sr.sd[t].pc = "store"
    /\ LET i == sr.sd[t].i
       IN  sr' = [sr EXCEPT
                    !.shards[i] = "live",
                    !.sd[t] = IF i = sr.maxShards
                              THEN [pc |-> "returned", i |-> 0]
                              ELSE [pc |-> "loop", i |-> i + 1]]
    /\ RouterOnly
\* The store is complete; the loop goes on to the next slot or Shutdown
\* returns.
ShutdownStore(t) ==
    /\ sr.pc = "ready" /\ ~sr.fault
    /\ sr.sd[t].pc = "store"
    /\ LET i == sr.sd[t].i
       IN  sr' = [sr EXCEPT
                    !.shards[i] = "nop",
                    !.sd[t] = IF i = sr.maxShards
                              THEN [pc |-> "returned", i |-> 0]
                              ELSE [pc |-> "loop", i |-> i + 1]]
    /\ RouterOnly
NextShard ==
    \/ New
    \/ \E key \in RKeys : RouterGet(key)
    \/ \E key \in RKeys, val \in RVals : RouterPut(key, val)
    \/ \E key \in RKeys : RouterDelete(key)
    \/ RouterSizeCall
    \/ RouterSizeStep
    \/ RouterCapacityCall
    \/ RouterCapacityStep
    \/ \E stopAt \in RKeys \cup {NoStop} : RouterTraverseCall(stopAt)
    \/ RouterTraverseStep
    \/ \E t \in ShutdownCallers : RouterShutdownCall(t)
    \/ \E t \in ShutdownCallers : ShutdownShard(t)
    \/ \E t \in ShutdownCallers : ShutdownStore(t)
SpecShard == InitShard /\ [][NextShard]_vars
\* Runs of Put and Traverse with one call more, next to one Shutdown.
InitTraverse == InitRouter(MaxOps + 1)
NextTraverse ==
    \/ New
    \/ \E key \in RKeys, val \in RVals : RouterPut(key, val)
    \/ \E stopAt \in RKeys \cup {NoStop} : RouterTraverseCall(stopAt)
    \/ RouterTraverseStep
    \/ RouterShutdownCall(1)
    \/ ShutdownShard(1)
    \/ ShutdownStore(1)
SpecTraverse == InitTraverse /\ [][NextTraverse]_vars

\* ------------------------------------------------------ heap: on its own
\* The largest number of elements of the heap, and the number of values.
MaxHeapLen == 6
NumHeapVals == 4
HeapVals == 0 .. NumHeapVals - 1
\* down(i0, n): the index the element at i0 ends at.
RECURSIVE HeapDownTo(_, _, _)
HeapDownTo(d, i, n) ==
    IF 2 * i + 1 >= n THEN i
    ELSE IF ~Less(d[Child(d, i, n) + 1], d[i + 1]) THEN i
    ELSE HeapDownTo(HeapSwap(d, i, Child(d, i, n)), Child(d, i, n), n)
\* A variant of Fix that only moves the element down.
HeapFix_DownOnly(d, i) == HeapDown(d, i, Len(d))
\* Fix(i): if !h.down(i, len(h.data)) { h.up(i) }
HeapFix(d, i) ==
    IF HeapDownTo(d, i, Len(d)) > i THEN HeapDown(d, i, Len(d)) ELSE HeapUp(d, i)
\* A bag of values: how many of each.
NoVals == [x \in HeapVals |-> 0]
BagOf(q) == [x \in HeapVals |-> Cardinality({i \in DOMAIN q : q[i] = x})]
\* heap.New(intLess): an empty heap. in is the bag of the values put in
\* and not yet got out, last the last call.
InitHeap ==
    /\ CacheInit /\ c.onEvict
    /\ gm = GmNone
    /\ NoExpiryMap /\ NoRouter /\ NoLists /\ NoCache2
    /\ hp = [data |-> <<>>, in |-> NoVals, last |-> [op |-> "New", x |-> 0]]
HeapOnly == UNCHANGED <<cacheVars, gm, expiryVars, sr, lc, c2>>
\* h.Push(x)
HeapPushCall(x) ==
    /\ Len(hp.data) < MaxHeapLen
    /\ hp' = [data |-> HeapPush(hp.data, x),
              in |-> [hp.in EXCEPT ![x] = @ + 1],
              last |-> [op |-> "Push", x |-> x]]
    /\ HeapOnly
\* h.Pop() of a heap that is not empty (Pop of an empty one panics).
HeapPopCall ==
    /\ Len(hp.data) > 0
    /\ LET r == HeapPop(hp.data)
       IN  hp' = [data |-> r.data,
                  in |-> [hp.in EXCEPT ![r.x] = @ - 1],
                  last |-> [op |-> "Pop", x |-> r.x]]
    /\ HeapOnly
\* h.data[i] = x; h.Fix(i)
HeapFixCall(i, x) ==
    /\ i < Len(hp.data)
    /\ hp' = [data |-> HeapFix([hp.data EXCEPT ![i + 1] = x], i),
              in |-> [[hp.in EXCEPT ![hp.data[i + 1]] = @ - 1]
                         EXCEPT ![x] = @ + 1],
              last |-> [op |-> "Fix", x |-> x]]
    /\ HeapOnly
NextHeap ==
    \/ \E x \in HeapVals : HeapPushCall(x)
    \/ HeapPopCall
    \/ \E i \in 0 .. MaxHeapLen - 1, x \in HeapVals : HeapFixCall(i, x)
SpecHeap == InitHeap /\ [][NextHeap]_vars

\* ---------------------------------------------------- list: a client's calls
\* The number of calls the client makes.
MaxListOps == 4
\* The two list.List objects of the client, both initialised.
ClientLists == {1, 2}
NoCall == [n |-> 0, op |-> "none"]
\* The *Entry values the client holds: e is the Entry, l the List whose
\* PushFront returned it, and st tells what has happened to it since:
\* "valid", "removed" (by Remove or PopBack), "destroyed" (its List was
\* destroyed) or "cleared" (its List was initialised again).
Handle(e, l) == [e |-> e, l |-> l, st |-> "valid"]
\* The handles as they are once the valid ones among hs have become st.
Invalidated(held, hs, st) ==
    {IF h \in hs /\ h.st = "valid" THEN [h EXCEPT !.st = st] ELSE h : h \in held}
\* The handles to the Entry e, and those of the List l.
HandlesTo(held, e) == {h \in held : h.e = e}
HandlesOf(held, l) == {h \in held : h.l = l}
\* What l.pool.Get() may return to the client: an Entry put back earlier,
\* or a new one, which no handle points to.
ClientPoolChoices(r, l) ==
    {n \in PoolChoices(r.m, l) :
        n \in r.m.lst[l].pool \/ HandlesTo(r.held, n) = {}}
\* List.PopBack: the last Entry is unlinked, zeroed and put back.
ListPopBack(m, l) ==
    IF ListBack(m, l) = Nil THEN m
    ELSE Recycle(ListUnlink(m, l, ListBack(m, l)), l, ListBack(m, l))
\* internal.List.Destroy: l.order = list.List{}.
ListDestroy(m, l) == [m EXCEPT !.lst[l] = ZeroList]
InitList ==
    /\ CacheInit /\ c.onEvict
    /\ gm = GmNone
    /\ NoExpiryMap /\ NoRouter /\ NoCache2 /\ NoHeap
    /\ lc = [m |-> ListInit(ListInit([ent |-> [n \in NodeIds |-> ZeroNode],
                                      lst |-> [l \in ClientLists |-> ZeroList],
                                      fault |-> FALSE], 1), 2),
             held |-> {}, gone |-> {}, ret |-> NoCall]
ListOnly == UNCHANGED <<cacheVars, gm, expiryVars, sr, c2, hp>>
\* The client may make a call: no call has panicked, and calls are left.
ClientCanCall == ~lc.m.fault /\ lc.ret.n < MaxListOps
\* The record of a call: the method, the List it was called on, and for a
\* call with an Entry the handle used and the List the Entry named.
Called(op, l, h, err) ==
    [n |-> lc.ret.n + 1, op |-> op, l |-> l, h |-> h, err |-> err,
     owner |-> IF h.e = Nil THEN Nil ELSE lc.m.ent[h.e].list]
NoHandle == [e |-> Nil, l |-> Nil, st |-> "none"]
\* l.Init()
ClientInit(l) ==
    /\ ClientCanCall
    /\ lc' = [lc EXCEPT !.m = ListInit(@, l),
                        !.held = Invalidated(@, HandlesOf(@, l), "cleared"),
                        !.ret = Called("Init", l, NoHandle, FALSE)]
    /\ ListOnly
\* l.PushFront(val)
ClientPushFront(l, val) ==
    /\ ClientCanCall
    /\ \/ /\ ~lc.m.lst[l].hasPool
          /\ lc' = [lc EXCEPT !.m.fault = TRUE,
                              !.ret = Called("PushFront", l, NoHandle, FALSE)]
       \/ /\ lc.m.lst[l].hasPool
          /\ \E n \in ClientPoolChoices(lc, l) :
                lc' = [lc EXCEPT
                         !.m = ListPushFront(@, l, n, MkEntry(val, val)),
                         !.held = @ \cup {Handle(n, l)},
                         !.ret = Called("PushFront", l, Handle(n, l), FALSE)]
    /\ ListOnly
\* l.MoveToFront(h.e)
ClientMoveToFront(l, h) ==
    /\ ClientCanCall
    /\ lc' = [lc EXCEPT
                !.m = ListMoveToFront(@, l, h.e),
                !.ret = Called("MoveToFront", l, h,
                               ListMoveToFrontErr(lc.m, l, h.e))]
    /\ ListOnly
\* l.Remove(h.e)
ClientRemove(l, h) ==
    /\ ClientCanCall
    /\ lc' = [lc EXCEPT
                !.m = ListRemove(@, l, h.e),
                !.held = IF lc.m.ent[h.e].list = l
                         THEN Invalidated(@, HandlesTo(@, h.e), "removed")
                         ELSE @,
                !.ret = Called("Remove", l, h, FALSE)]
    /\ ListOnly
\* l.PopBack()
ClientPopBack(l) ==
    /\ ClientCanCall
    /\ lc' = [lc EXCEPT
                !.m = ListPopBack(@, l),
                !.held = Invalidated(@, HandlesTo(@, ListBack(lc.m, l)),
                                     "removed"),
                !.ret = Called("PopBack", l, NoHandle, FALSE)]
    /\ ListOnly
\* Destroy of the internal.List whose order is l.
ClientDestroy(l) ==
    /\ ClientCanCall
    /\ lc' = [lc EXCEPT
                !.m = ListDestroy(@, l),
                !.held = Invalidated(@, HandlesOf(@, l), "destroyed"),
                !.gone = @ \cup {l},
                !.ret = Called("Destroy", l, NoHandle, FALSE)]
    /\ ListOnly
NextList ==
    \/ \E l \in ClientLists : ClientInit(l)
    \/ \E l \in ClientLists, val \in Vals : ClientPushFront(l, val)
    \/ \E l \in ClientLists, h \in lc.held : ClientMoveToFront(l, h)
    \/ \E l \in ClientLists, h \in lc.held : ClientRemove(l, h)
    \/ \E l \in ClientLists : ClientPopBack(l)
    \/ \E l \in ClientLists : ClientDestroy(l)
SpecList == InitList /\ [][NextList]_vars

\* ------------------------------------------------------------- lru2.Cache
\* The cache with two locks: mapMutex (a sync.RWMutex) for isShutdown and
\* items, qMutex (a sync.Mutex) for queue. c2 is the Cache object with its
\* list memory m, and thr[t] the calls goroutine t is in, innermost last: a
\* call made by the eviction callback lies on top of the call that
\* dispatched the callback.
MaxL2Calls == 3
NumL2Keys == 2
NumL2Vals == 1
L2Capacity == 1
MaxDepth == 2
L2Threads == {1, 2}
L2Keys == 1 .. NumL2Keys
L2Vals == 1 .. NumL2Vals
Readers == {"Get", "Traverse"}
Writers == {"Put", "Delete", "Reset", "Shutdown"}
L2Ops == Readers \cup Writers \cup {"Size"}

\* sync.RWMutex. w: the goroutine that has announced a Lock and holds the
\* mutex against other writers (Nil: none); wait: the readers it still
\* waits for (readerWait); r: the readers that hold the mutex; b: the
\* goroutines blocked in RLock behind the writer. readerCount is r plus
\* the size of b, less rwmutexMaxReaders when w is set.
FreeRW == [w |-> Nil, wait |-> 0, r |-> 0, b |-> {}]
RLock(mm, t) ==
    IF mm.w = Nil THEN [mm EXCEPT !.r = @ + 1] ELSE [mm EXCEPT !.b = @ \cup {t}]
\* RUnlock ends the process with "sync: RUnlock of unlocked RWMutex" when
\* no reader holds or awaits the mutex.
RUnlockFatal(mm) == mm.r + Cardinality(mm.b) = 0
RUnlock(mm) ==
    IF mm.w = Nil THEN [mm EXCEPT !.r = @ - 1]
    ELSE [mm EXCEPT !.r = @ - 1, !.wait = @ - 1]
WLock(mm, t) == [mm EXCEPT !.w = t, !.wait = mm.r]
\* Unlock lets in every reader that was blocked behind the writer.
WUnlock(mm) == [w |-> Nil, wait |-> 0, r |-> mm.r + Cardinality(mm.b), b |-> {}]

\* A call in progress. pc: where it stands; elem: the *ListEntry it found;
\* ent: the *Entry it removed and owes the callback; late: it began after
\* Shutdown had returned.
Frame(op, key, val, late) ==
    [op |-> op, pc |-> "start", key |-> key, val |-> val, elem |-> Nil,
     ent |-> NilEntry, late |-> late]
ErrFatal == "fatal error"
NoReturn == [t |-> Nil, op |-> "none", err |-> ErrNil, late |-> FALSE]
Top2(S, t) == S.thr[t][Len(S.thr[t])]
SetTop(S, t, f) == [S EXCEPT !.thr[t][Len(S.thr[t])] = f]
At(S, t, pc) == S.thr[t] # <<>> /\ Top2(S, t).pc = pc
\* The call on top of t's stack returns err.
Ret(S, t, err) ==
    [S EXCEPT !.thr[t] = SubSeq(@, 1, Len(@) - 1),
              !.last = [t |-> t, op |-> Top2(S, t).op, err |-> err,
                        late |-> Top2(S, t).late],
              !.sdDone = @ \/ Top2(S, t).op = "Shutdown"]
\* A panic leaves through every call of the goroutine; the deferred
\* qMutex.Unlock of Get, Put or reset runs on the way.
Panicked(S, t) ==
    [S EXCEPT !.thr[t] = <<>>, !.panicked = TRUE,
              !.qMutex = IF @ = t THEN Nil ELSE @]
\* internal.List.MoveToFront under qMutex, and the return of the call.
MovedToFront(S, t, elem) ==
    IF ListMoveToFrontErr(S.m, Q, elem) THEN Panicked(S, t)
    ELSE Ret([S EXCEPT !.m = ListMoveToFront(@, Q, elem)], t, ErrNil)
\* internal.List.Remove of elem; the call then owes its Entry the callback.
QueueRemoved(S, t, elem, pc) ==
    SetTop([S EXCEPT !.m = ListRemove([S.m EXCEPT !.ent[elem].Value = NilEntry],
                                      Q, elem)],
           t, [Top2(S, t) EXCEPT !.pc = pc, !.ent = S.m.ent[elem].Value])

\* Get with mapMutex read-locked, up to c.qMutex.Lock().
GetBody(S, t) ==
    IF S.isShutdown
    THEN Ret([S EXCEPT !.mapMutex = RUnlock(@)], t, ErrShutdown)
    ELSE IF Top2(S, t).key \notin DOMAIN S.items
    THEN Ret([S EXCEPT !.mapMutex = RUnlock(@)], t, ErrNil)
    ELSE SetTop(S, t, [Top2(S, t) EXCEPT !.pc = "q",
                                         !.elem = S.items[Top2(S, t).key]])
\* Traverse with mapMutex read-locked, up to c.qMutex.Lock().
TraverseBody(S, t) ==
    IF S.isShutdown
    THEN Ret([S EXCEPT !.mapMutex = RUnlock(@)], t, ErrShutdown)
    ELSE SetTop(S, t, [Top2(S, t) EXCEPT !.pc = "tq"])
\* Put's shutdown branch: c.mapMutex.RUnlock() of the mutex it has locked
\* for writing.
PutShutdown(S, t) ==
    IF RUnlockFatal(S.mapMutex)
    THEN [S EXCEPT !.fatal = TRUE,
                   !.last = [t |-> t, op |-> "Put", err |-> ErrFatal,
                             late |-> Top2(S, t).late]]
    ELSE Ret([S EXCEPT !.mapMutex = RUnlock(@)], t, ErrShutdown)
\* Put with mapMutex locked, up to c.qMutex.Lock().
PutBody(S, t) ==
    IF S.isShutdown THEN PutShutdown(S, t)
    ELSE IF Top2(S, t).key \in DOMAIN S.items
    THEN SetTop([S EXCEPT !.m.ent[S.items[Top2(S, t).key]].Value.Value =
                              Top2(S, t).val],
                t, [Top2(S, t) EXCEPT !.pc = "pq",
                                      !.elem = S.items[Top2(S, t).key]])
    ELSE SetTop(S, t, [Top2(S, t) EXCEPT !.pc = "pn"])
\* Delete with mapMutex locked, up to c.qMutex.Lock().
DeleteBody(S, t) ==
    IF S.isShutdown
    THEN Ret([S EXCEPT !.mapMutex = WUnlock(@)], t, ErrShutdown)
    ELSE IF Top2(S, t).key \notin DOMAIN S.items
    THEN Ret([S EXCEPT !.mapMutex = WUnlock(@)], t, ErrNil)
    ELSE SetTop([S EXCEPT !.items = MapDelete(@, Top2(S, t).key)],
                t, [Top2(S, t) EXCEPT !.pc = "dq",
                                      !.elem = S.items[Top2(S, t).key]])
\* reset with mapMutex locked, up to c.qMutex.Lock().
ResetBody(S, t) ==
    IF S.isShutdown
    THEN Ret([S EXCEPT !.mapMutex = WUnlock(@)], t, ErrShutdown)
    ELSE SetTop([S EXCEPT !.isShutdown = Top2(S, t).op = "Shutdown",
                          !.items = EmptyMap],
                t, [Top2(S, t) EXCEPT !.pc = "rq"])
Body(S, t) ==
    CASE Top2(S, t).op = "Get" -> GetBody(S, t)
      [] Top2(S, t).op = "Traverse" -> TraverseBody(S, t)
      [] Top2(S, t).op = "Put" -> PutBody(S, t)
      [] Top2(S, t).op = "Delete" -> DeleteBody(S, t)
      [] OTHER -> ResetBody(S, t)

\* lru2.New with a capacity and a callback.
InitLru2 ==
    /\ CacheInit /\ c.onEvict
    /\ gm = GmNone /\ NoExpiryMap /\ NoRouter /\ NoLists /\ NoHeap
    /\ c2 = [mapMutex |-> FreeRW, isShutdown |-> FALSE, items |-> EmptyMap,
             qMutex |-> Nil, capacity |-> L2Capacity,
             m |-> ListInit([ent |-> [n \in NodeIds |-> ZeroNode],
                             lst |-> [l \in ListIds |-> ZeroList],
                             fault |-> FALSE], Q),
             thr |-> [t \in L2Threads |-> <<>>], calls |-> 0,
             fatal |-> FALSE, panicked |-> FALSE, sdDone |-> FALSE,
             last |-> NoReturn]
Lru2Only == UNCHANGED <<cacheVars, gm, expiryVars, sr, lc, hp>>
Running == ~c2.fatal
\* The eviction callback of a call of t is running.
CallbackRuns(S, t) == At(S, t, "cb") \/ At(S, t, "rcb")

\* Goroutine t calls op: from outside the cache, or from the callback.
L2Call(t, op, key, val) ==
    /\ Running
    /\ c2.calls < MaxL2Calls
    /\ c2.thr[t] = <<>> \/ (CallbackRuns(c2, t) /\ Len(c2.thr[t]) < MaxDepth)
    /\ c2' = [c2 EXCEPT !.thr[t] = Append(@, Frame(op, key, val, c2.sdDone)),
                        !.calls = @ + 1]
    /\ Lru2Only
\* c.mapMutex.RLock(): it returns at once, or after the Unlock of the
\* writer it is behind.
L2RLock(t) ==
    /\ Running
    /\ At(c2, t, "start") /\ Top2(c2, t).op \in Readers
    /\ c2' = SetTop([c2 EXCEPT !.mapMutex = RLock(@, t)], t,
                    [Top2(c2, t) EXCEPT !.pc = "rblocked"])
    /\ Lru2Only
L2RGranted(t) ==
    /\ Running
    /\ At(c2, t, "rblocked") /\ t \notin c2.mapMutex.b
    /\ c2' = Body(c2, t)
    /\ Lru2Only
\* c.mapMutex.Lock(): it returns when the readers that hold the mutex have
\* released it.
L2Lock(t) ==
    /\ Running
    /\ At(c2, t, "start") /\ Top2(c2, t).op \in Writers
    /\ c2.mapMutex.w = Nil
    /\ c2' = SetTop([c2 EXCEPT !.mapMutex = WLock(@, t)], t,
                    [Top2(c2, t) EXCEPT !.pc = "wlock"])
    /\ Lru2Only
L2LockGranted(t) ==
    /\ Running
    /\ At(c2, t, "wlock") /\ c2.mapMutex.w = t /\ c2.mapMutex.wait = 0
    /\ c2' = Body(c2, t)
    /\ Lru2Only
\* Get: c.qMutex.Lock(); c.mapMutex.RUnlock(); c.queue.MoveToFront(elem)
\* and the deferred c.qMutex.Unlock().
L2GetQ(t) ==
    /\ Running
    /\ At(c2, t, "q") /\ c2.qMutex = Nil
    /\ c2' = MovedToFront([c2 EXCEPT !.mapMutex = RUnlock(@)], t,
                          Top2(c2, t).elem)
    /\ Lru2Only
\* Put of a key in the index: c.qMutex.Lock(); c.mapMutex.Unlock();
\* c.queue.MoveToFront(elem) and the deferred c.qMutex.Unlock().
L2PutQ(t) ==
    /\ Running
    /\ At(c2, t, "pq") /\ c2.qMutex = Nil
    /\ c2' = MovedToFront([c2 EXCEPT !.mapMutex = WUnlock(@)], t,
                          Top2(c2, t).elem)
    /\ Lru2Only
\* Put of a new key, from c.qMutex.Lock() to c.qMutex.Unlock(): evict is
\* the back element of a full queue, n the list.Entry the pool hands out.
PutNewWith(S, t, n, evict) ==
    [S EXCEPT
        !.items = MapSet(IF evict = Nil THEN @
                         ELSE MapDelete(@, S.m.ent[evict].Value.Key),
                         Top2(S, t).key, n),
        !.m = ListPushFront(@, Q, n, MkEntry(Top2(S, t).key, Top2(S, t).val)),
        !.mapMutex = WUnlock(@)]
PutNewEnd(S, t, evict) ==
    IF evict = Nil THEN Ret(S, t, ErrNil) ELSE QueueRemoved(S, t, evict, "cb")
L2PutNew(t, n) ==
    /\ Running
    /\ At(c2, t, "pn") /\ c2.qMutex = Nil
    /\ n \in PoolChoices(c2.m, Q)
    /\ c2' = PutNewEnd(PutNewWith(c2, t, n,
                                  IF ListSize(c2.m, Q) >= c2.capacity
                                  THEN ListBack(c2.m, Q) ELSE Nil),
                       t,
                       IF ListSize(c2.m, Q) >= c2.capacity
                       THEN ListBack(c2.m, Q) ELSE Nil)
    /\ Lru2Only
\* Delete: c.qMutex.Lock(); c.mapMutex.Unlock(); c.queue.Remove(elem);
\* c.qMutex.Unlock(); the callback is next.
L2DeleteQ(t) ==
    /\ Running
    /\ At(c2, t, "dq") /\ c2.qMutex = Nil
    /\ c2' = QueueRemoved([c2 EXCEPT !.mapMutex = WUnlock(@)], t,
                     Top2(c2, t).elem, "cb")
    /\ Lru2Only
\* reset: c.qMutex.Lock(); c.mapMutex.Unlock(); defer c.qMutex.Unlock().
\* reset's loop with an element at the back: c.queue.Remove(elem), and
\* c.queue.OnEvict is next, qMutex still held.
ResetTake(S, t, elem) == QueueRemoved(S, t, elem, "rcb")
L2ResetQ(t) ==
    /\ Running
    /\ At(c2, t, "rq") /\ c2.qMutex = Nil
    /\ c2' = SetTop([c2 EXCEPT !.mapMutex = WUnlock(@), !.qMutex = t], t,
                    [Top2(c2, t) EXCEPT !.pc = "rloop"])
    /\ Lru2Only
\* reset's loop: elem := c.queue.Back(); on nil the loop ends, reset
\* returns and its deferred c.qMutex.Unlock() runs.
L2ResetLoop(t) ==
    /\ Running
    /\ At(c2, t, "rloop")
    /\ c2' = IF ListBack(c2.m, Q) = Nil
             THEN Ret([c2 EXCEPT !.qMutex = Nil], t, ErrNil)
             ELSE ResetTake(c2, t, ListBack(c2.m, Q))
    /\ Lru2Only
\* Traverse: c.qMutex.Lock(); fn for the elements of c.queue.Seq(); the
\* deferred c.qMutex.Unlock() and c.mapMutex.RUnlock().
L2TraverseQ(t) ==
    /\ Running
    /\ At(c2, t, "tq") /\ c2.qMutex = Nil
    /\ c2' = Ret([c2 EXCEPT !.mapMutex = RUnlock(@)], t, ErrNil)
    /\ Lru2Only
\* Size: c.qMutex.Lock(), the test of c.isShutdown, c.qMutex.Unlock().
L2Size(t) ==
    /\ Running
    /\ At(c2, t, "start") /\ Top2(c2, t).op = "Size" /\ c2.qMutex = Nil
    /\ c2' = Ret(c2, t, IF c2.isShutdown THEN ErrShutdown ELSE ErrNil)
    /\ Lru2Only
\* c.queue.OnEvict(ctx, ent) returns: Put and Delete return, reset goes
\* round its loop.
L2CallbackReturn(t) ==
    /\ Running
    /\ CallbackRuns(c2, t)
    /\ c2' = IF At(c2, t, "cb") THEN Ret(c2, t, ErrNil)
             ELSE SetTop(c2, t, [Top2(c2, t) EXCEPT !.pc = "rloop",
                                                    !.ent = NilEntry])
    /\ Lru2Only
NextLru2 ==
    \/ \E t \in L2Threads, op \in L2Ops, key \in L2Keys, val \in L2Vals :
          L2Call(t, op, key, val)
    \/ \E t \in L2Threads : L2RLock(t)
    \/ \E t \in L2Threads : L2RGranted(t)
    \/ \E t \in L2Threads : L2Lock(t)
    \/ \E t \in L2Threads : L2LockGranted(t)
    \/ \E t \in L2Threads : L2GetQ(t)
    \/ \E t \in L2Threads : L2PutQ(t)
    \/ \E t \in L2Threads, n \in NodeIds : L2PutNew(t, n)
    \/ \E t \in L2Threads : L2DeleteQ(t)
    \/ \E t \in L2Threads : L2ResetQ(t)
    \/ \E t \in L2Threads : L2ResetLoop(t)
    \/ \E t \in L2Threads : L2TraverseQ(t)
    \/ \E t \in L2Threads : L2Size(t)
    \/ \E t \in L2Threads : L2CallbackReturn(t)
SpecLru2 == InitLru2 /\ [][NextLru2]_vars

\* ------------------------------------------------------------- properties
\* The value stored under key k, read through the index.
ValueOf(S, k) == S.m.ent[S.c.items[k]].Value.Value
\* The set of the Entries a sequence of callback invocations was made with.
SetOf(cb) == {cb[i] : i \in DOMAIN cb}
\* The Entries of S0 whose key S1 no longer holds.
Removed(S0, S1) == {e \in EntriesOf(S0) : e.Key \notin KeysOf(S1)}
\* The invocations cb are one per Entry removed between S0 and S1, each
\* with the removed Entry's key and value.
OncePerRemoved(cb, S0, S1) ==
    /\ Len(cb) = Cardinality(Removed(S0, S1))
    /\ SetOf(cb) = Removed(S0, S1)
\* The call returned (or reached OnEvict) with the mutex free and no panic.
Clean(S) == S.c.mu = Nil /\ ~S.m.fault /\ ~S.fatal

\* C1: on an Active cache, in every reachable state, the recency list and
\* the index each hold at most Capacity entries, and Size() <= Capacity().
C1_SizeAtMostCapacity ==
    ~c.isShutdown =>
        /\ QSize(St) <= QCapacity(St)
        /\ Cardinality(DOMAIN c.items) <= QCapacity(St)
        /\ Cardinality(Entries) <= QCapacity(St)
        /\ CacheSize(St, 1).n <= CacheCapacity(St, 1).n
\* A Put into a full cache has evicted (it is in OnEvict) and the cache is
\* full again.
C1_Witness ==
    /\ ~c.isShutdown /\ ~fatal /\ c.onEvict
    /\ \E t \in Threads : stack[t] # <<>> /\ Top(t) = "Put"
    /\ QSize(St) = QCapacity(St)
    /\ Cardinality(DOMAIN c.items) = QCapacity(St)

\* C2: a Put of a new key into an Active cache holding exactly Capacity
\* entries removes exactly one entry, the key whose most recent touch is the
\* oldest; every other key stays present with its value, and the new key is
\* stored.
PutEvicts(r, lru, k, v) ==
    /\ r.some
    /\ r.en.Key = lru
    /\ lru \in CacheKeys
    /\ KeysOf(r.S) = (CacheKeys \ {lru}) \cup {k}
    /\ DOMAIN r.S.c.items = KeysOf(r.S)
    /\ EntriesOf(r.S) = {e \in Entries : e.Key # lru} \cup {MkEntry(k, v)}
    /\ \A j \in CacheKeys \ {lru} : ValueOf(r.S, j) = ValueOf(St, j)
C2_PutEvictsLRU ==
    (~c.isShutdown /\ Cardinality(CacheKeys) = QCapacity(St)) =>
        \A t \in Threads, k \in Keys \ CacheKeys, v \in Vals :
            PutEvicts(CachePut(St, t, k, v), touch[Len(touch)], k, v)
\* A Put has evicted from a full cache whose least recently touched key
\* was not the key at the lowest list.Entry: the order had been changed by
\* touches.
C2_Witness ==
    /\ ~c.isShutdown /\ ~fatal
    /\ \E t \in Threads : stack[t] # <<>> /\ Top(t) = "Put"
    /\ Cardinality(CacheKeys) = QCapacity(St)
    /\ touch[Len(touch)] > touch[1]
    /\ CachePut(St, 1, CHOOSE k \in Keys : k \notin CacheKeys, 1).en.Key
         = touch[Len(touch)]

\* C3: on an Active cache Get(k) returns (v, true), v the value of the most
\* recent Put(k, v), when k has not been evicted, deleted or reset since,
\* and (zero, false) otherwise.
C3_GetReturnsLatest ==
    ~c.isShutdown =>
        \A t \in Threads, k \in Keys :
            /\ CacheGet(St, t, k).err = ErrNil
            /\ CacheGet(St, t, k).ok = (latest[k] # Zero)
            /\ CacheGet(St, t, k).val = latest[k]
\* Get hits a key whose value was put last, and misses a key that was
\* removed.
C3_Witness ==
    /\ ~c.isShutdown /\ ~fatal
    /\ \E k \in Keys : latest[k] = NumVals /\ CacheGet(St, 1, k).val = NumVals
    /\ \E k \in Keys : latest[k] = Zero /\ ~CacheGet(St, 1, k).ok
    /\ \E t \in Threads : stack[t] # <<>>

\* C4: with an eviction callback set, each of Put, Delete, Reset and
\* Shutdown, at its call and (Reset, Shutdown) whenever it goes on after a
\* callback, invokes the callback exactly once for every entry it removes,
\* with that entry's key and value, and for no other entry; Get removes
\* nothing.
PutCalls(r) == OncePerRemoved(CbOf(r.S, r.some, r.en), St, r.S)
ResetCalls(r) == OncePerRemoved(CbOf(r.S, ~r.done, r.en), St, r.S)
C4_CallbackOncePerRemoved ==
    c.onEvict =>
        \A t \in Threads :
            /\ \A k \in Keys, v \in Vals : PutCalls(CachePut(St, t, k, v))
            /\ \A k \in Keys : PutCalls(CacheDelete(St, t, k))
            /\ \A k \in Keys : Removed(St, CacheGet(St, t, k).S) = {}
            /\ ResetCalls(CacheReset(St, t))
            /\ ResetCalls(CacheShutdown(St, t))
            /\ \A op \in {"Reset", "Shutdown"} : ResetCalls(ResetResume(St, t, op))
\* A Shutdown has removed one entry of a full cache and is in the callback
\* for it, with another entry still to go.
C4_Witness ==
    /\ c.onEvict /\ c.isShutdown /\ ~fatal
    /\ \E t \in Threads : stack[t] # <<>> /\ Top(t) = "Shutdown"
    /\ Cardinality(Entries) = 1
    /\ Len(CbOf(ResetResume(St, 1, "Shutdown").S, TRUE,
                ResetResume(St, 1, "Shutdown").en)) = 1

\* C5: a panic of the eviction callback does not escape the Put, Delete,
\* Reset or Shutdown call that triggered it: no caller is reached by a
\* panic, and the process is not ended by a fatal error.
C5_PanicContained == escaped = "none" /\ ~fatal

\* C6: once Shutdown has been called, each of Get, Put, Delete, Size,
\* Capacity, Reset and Traverse reports a ShutdownError, does not panic, and
\* changes no cache state.
C6_ShutdownReported ==
    c.isShutdown =>
        \A t \in Threads :
            /\ \A k \in Keys :
                 /\ CacheGet(St, t, k).err = ErrShutdown
                 /\ CacheGet(St, t, k).S = St
                 /\ CacheDelete(St, t, k).err = ErrShutdown
                 /\ CacheDelete(St, t, k).S = St
                 /\ \A v \in Vals :
                      /\ CachePut(St, t, k, v).err = ErrShutdown
                      /\ CachePut(St, t, k, v).S = St
            /\ CacheSize(St, t).err = ErrShutdown
            /\ CacheSize(St, t).S = St
            /\ CacheCapacity(St, t).err = ErrShutdown
            /\ CacheCapacity(St, t).S = St
            /\ CacheReset(St, t).err = ErrShutdown
            /\ CacheReset(St, t).S = St
            /\ \A stop \in 0 .. Capacity :
                 /\ CacheTraverse(St, t, stop).err = ErrShutdown
                 /\ CacheTraverse(St, t, stop).S = St

\* C7: whenever an eviction callback is running, no goroutine holds the
\* cache mutex; so, while the process lives, every goroutine (the one in
\* the callback too) can enter the cache, and its Get, Put, Delete and Size
\* come back with the mutex free again.
Reenters(t) ==
    /\ CanCall(t)
    /\ \A k \in Keys :
         /\ Clean(CacheGet(St, t, k).S)
         /\ Clean(CacheDelete(St, t, k).S)
         /\ \A v \in Vals : Clean(CachePut(St, t, k, v).S)
    /\ Clean(CacheSize(St, t).S)
C7_CallbackWithoutMutex ==
    (c.onEvict /\ \E t \in Threads : stack[t] # <<>>) =>
        /\ c.mu = Nil
        /\ ~fatal => \A u \in Threads : Reenters(u)
\* Inside the callback of a Reset, the goroutine has called Delete, which
\* removed an entry and is itself in its callback.
C7_Witness ==
    /\ ~fatal
    /\ \E t \in Threads :
         Len(stack[t]) = 2 /\ stack[t][1] = "Reset" /\ stack[t][2] = "Delete"

\* C8: once Shutdown has been called the cache stays Shutdown and no step
\* adds an entry; in a Shutdown cache no Get hits, no Put stores, and a
\* further Shutdown invokes no callback and changes nothing.
StaysShutdown ==
    c.isShutdown =>
        \A t \in Threads :
            /\ \A k \in Keys :
                 /\ ~CacheGet(St, t, k).ok
                 /\ \A v \in Vals : CachePut(St, t, k, v).S = St
            /\ CacheShutdown(St, t).done
            /\ CacheShutdown(St, t).S = St
C8_ShutdownIrreversible ==
    /\ []StaysShutdown
    /\ [][c.isShutdown => /\ c'.isShutdown
                          /\ KeysOf(St') \subseteq CacheKeys
                          /\ DOMAIN c'.items \subseteq DOMAIN c.items]_vars
\* Shutdown has completed on a cache that held entries: it is Shutdown,
\* emptied, and no call is in progress.
C8_Witness ==
    /\ c.isShutdown /\ c.itemsNil /\ ~fatal
    /\ \A t \in Threads : stack[t] = <<>>
    /\ escaped = "none"
    /\ \E k \in Keys : latest[k] = Zero /\ QSize(St) = 0

\* C9: a Reset of an Active cache holding n entries, during which nothing
\* else changes what the cache holds, has at its return invoked the
\* callback exactly n times, with the n stored key/value pairs; Size() is
\* 0, every former key is not found, and the cache is Active: a Put
\* followed by a Get of the key finds the value.
PutThenGet(S, t, k, v) == CacheGet(CachePut(S, t, k, v).S, t, k)
C9_ResetEmpties ==
    rs.done =>
        /\ c.onEvict => /\ Len(rs.cbs) = Cardinality(rs.pairs)
                        /\ SetOf(rs.cbs) = rs.pairs
        /\ ~c.isShutdown
        /\ CacheSize(St, rs.t).n = 0
        /\ CacheSize(St, rs.t).err = ErrNil
        /\ Entries = {}
        /\ \A k \in Keys :
             /\ ~CacheGet(St, rs.t, k).ok
             /\ \A v \in Vals :
                  /\ PutThenGet(St, rs.t, k, v).ok
                  /\ PutThenGet(St, rs.t, k, v).val = v
\* A Reset of a full cache has returned.
C9_Witness ==
    rs.done /\ c.onEvict /\ Cardinality(rs.pairs) = Capacity /\ ~fatal

\* C10: Delete(k) on an Active cache returns true and removes k, with one
\* callback for it, exactly when k is present, and then every other key
\* keeps its value and its place in the recency order; when k is absent,
\* or the cache is Shutdown, it returns false, removes nothing, invokes no
\* callback and changes no state.
DeleteRemoves(r, k) ==
    /\ r.ok
    /\ CbOf(r.S, r.some, r.en) = <<MkEntry(k, ValueOf(St, k))>>
    /\ KeysOf(r.S) = CacheKeys \ {k}
    /\ DOMAIN r.S.c.items = CacheKeys \ {k}
    /\ EntriesOf(r.S) = {e \in Entries : e.Key # k}
    /\ KeySeqOf(r.S) = Drop(KeySeq, k)
    /\ QSize(r.S) = QSize(St) - 1
DeleteNothing(r) ==
    /\ ~r.ok
    /\ CbOf(r.S, r.some, r.en) = <<>>
    /\ r.S = St
C10_DeleteSemantics ==
    c.onEvict =>
        \A t \in Threads, k \in Keys :
            IF ~c.isShutdown /\ k \in CacheKeys
            THEN DeleteRemoves(CacheDelete(St, t, k), k)
            ELSE DeleteNothing(CacheDelete(St, t, k))
\* A Delete has removed one key of a full cache and is in its callback; the
\* other key is still there.
C10_Witness ==
    /\ ~c.isShutdown /\ ~fatal
    /\ \E t \in Threads : stack[t] = <<"Delete">>
    /\ \A t \in Threads : stack[t] \in {<<>>, <<"Delete">>}
    /\ Cardinality(CacheKeys) = Capacity - 1
    /\ Len(touch) = Capacity - 1

\* C11: a Put(k, v) of a key the Active cache holds stores v under k, makes
\* k the first of the recency order, keeps Size, the set of keys and every
\* other key's value and relative order, and invokes no callback, full
\* cache or not.
PutUpdates(r, k, v) ==
    /\ r.err = ErrNil
    /\ ~r.some
    /\ CbOf(r.S, r.some, r.en) = <<>>
    /\ KeySeqOf(r.S) = Touch(KeySeq, k)
    /\ Drop(KeySeqOf(r.S), k) = Drop(KeySeq, k)
    /\ DOMAIN r.S.c.items = CacheKeys
    /\ QSize(r.S) = QSize(St)
    /\ ValueOf(r.S, k) = v
    /\ \A j \in CacheKeys \ {k} : ValueOf(r.S, j) = ValueOf(St, j)
    /\ r.S.c.mu = Nil
C11_PutUpdatesInPlace ==
    ~c.isShutdown =>
        \A t \in Threads, k \in CacheKeys, v \in Vals :
            PutUpdates(CachePut(St, t, k, v), k, v)
\* A full cache with a callback set, whose least recently used key holds a
\* value other than NumVals: Put of that key with NumVals brings it to the
\* front with the new value, and the cache is still full.
C11_Witness ==
    /\ ~c.isShutdown /\ ~fatal /\ c.onEvict /\ c.mu = Nil
    /\ QSize(St) = QCapacity(St)
    /\ ValueOf(St, KeySeq[Len(KeySeq)]) # NumVals
    /\ KeySeqOf(CachePut(St, 1, KeySeq[Len(KeySeq)], NumVals).S)[1]
         = KeySeq[Len(KeySeq)]
    /\ latest[KeySeq[1]] = NumVals
    /\ touch = KeySeq

\* C12: Traverse on an Active cache calls fn with the stored entries, most
\* recently touched first, each with its latest value and none twice: with
\* a fn that always returns true (stop = 0) once for every stored entry,
\* Size() calls in all; with a fn that returns false at its stop-th call,
\* the first stop entries of that order and no more.
CallsOf(stop, n) == IF stop = 0 \/ stop > n THEN n ELSE stop
TraverseVisits(r, t, stop) ==
    /\ r.err = ErrNil
    /\ r.S = St
    /\ Len(r.seq) = CallsOf(stop, CacheSize(St, t).n)
    /\ Len(r.seq) = CallsOf(stop, Len(touch))
    /\ \A i \in DOMAIN r.seq :
         r.seq[i] = MkEntry(touch[i], latest[touch[i]])
    /\ \A i, j \in DOMAIN r.seq : r.seq[i].Key = r.seq[j].Key => i = j
C12_TraverseInRecencyOrder ==
    ~c.isShutdown =>
        \A t \in Threads, stop \in 0 .. (Capacity + 1) :
            TraverseVisits(CacheTraverse(St, t, stop), t, stop)
\* A full cache whose most recently touched key is not its most recently
\* stored one: a Traverse that is never stopped visits all its entries, one
\* stopped at the first call visits the most recently touched entry only.
C12_Witness ==
    /\ ~c.isShutdown /\ ~fatal
    /\ Len(touch) = Capacity
    /\ c.items[touch[1]] < c.items[touch[Len(touch)]]
    /\ Len(CacheTraverse(St, 1, 0).seq) = Capacity
    /\ CacheTraverse(St, 1, 1).seq = <<MkEntry(touch[1], latest[touch[1]])>>
    /\ \E t \in Threads : stack[t] # <<>>

\* C14: whenever the mutex is free, the index and the recency list hold
\* the same keys: every indexed key maps to a live element of the list that
\* carries this key, every element of the list is live and its key is
\* indexed to it, no two elements carry one key, and the list's len is the
\* number of its elements.
LiveNodes(S) == {n \in NodeIds : S.m.ent[n].list = Q}
SeqNodes(S) == {QSeq(S)[i] : i \in DOMAIN QSeq(S)}
IndexMatchesList(S) ==
    /\ \A k \in DOMAIN S.c.items :
         /\ S.c.items[k] \in SeqNodes(S)
         /\ S.m.ent[S.c.items[k]].Value.Key = k
    /\ \A n \in SeqNodes(S) :
         /\ S.m.ent[n].Value.Key \in DOMAIN S.c.items
         /\ S.c.items[S.m.ent[n].Value.Key] = n
    /\ SeqNodes(S) = LiveNodes(S)
    /\ \A i, j \in DOMAIN QSeq(S) : QSeq(S)[i] = QSeq(S)[j] => i = j
    /\ \A i, j \in DOMAIN KeySeqOf(S) :
         KeySeqOf(S)[i] = KeySeqOf(S)[j] => i = j
    /\ QSize(S) = Len(QSeq(S))
    /\ Cardinality(DOMAIN S.c.items) = QSize(S)
C14_IndexMatchesList == c.mu = Nil => IndexMatchesList(St)
\* A Reset of a full cache is in its first callback, the mutex released:
\* one entry is gone from the list and from the index, the rest is still in
\* both.
C14_Witness ==
    /\ ~fatal /\ c.mu = Nil /\ c.onEvict
    /\ \E t \in Threads : stack[t] = <<"Reset">>
    /\ Cardinality(DOMAIN c.items) = Capacity - 1
    /\ Len(KeySeq) = Capacity - 1
    /\ rs.pairs # {} /\ Len(rs.cbs) = 1

\* C13: GetMultiIter makes one Get per key in the order the sequence yields
\* the keys, and for each key calls exactly one of hitCB (with the key and
\* the value the cache holds for it) and missCB (with the key); the first
\* Get that finds the cache Shutdown ends it: it returns the ShutdownError
\* with no callback for that key and asks the sequence for no further key.
GmCallsInOrder ==
    /\ gm.asked <= Len(gm.keys)
    /\ Len(gm.calls) <= gm.asked
    /\ \A i \in DOMAIN gm.calls : gm.calls[i].key = gm.keys[i]
    /\ gm.pc = "loop" => gm.err = ErrNil /\ Len(gm.calls) = gm.asked
    /\ (gm.pc = "done" /\ gm.err = ErrNil) =>
           gm.asked = Len(gm.keys) /\ Len(gm.calls) = Len(gm.keys)
    /\ (gm.pc = "done" /\ gm.err # ErrNil) =>
           /\ gm.err = ErrShutdown
           /\ c.isShutdown
           /\ Len(gm.calls) = gm.asked - 1
GmDispatch ==
    IF gm.pc = "done" THEN gm' = gm
    ELSE gm' # gm =>
           IF gm.asked = Len(gm.keys)
           THEN gm' = [gm EXCEPT !.pc = "done"]
           ELSE IF c.isShutdown
           THEN gm' = [gm EXCEPT !.pc = "done", !.err = ErrShutdown,
                                 !.asked = @ + 1]
           ELSE /\ gm'.pc = "loop" /\ gm'.asked = gm.asked + 1
                /\ gm'.calls = Append(gm.calls,
                      IF latest[gm.keys[gm.asked + 1]] # Zero
                      THEN HitCB(gm.keys[gm.asked + 1],
                                 latest[gm.keys[gm.asked + 1]])
                      ELSE MissCB(gm.keys[gm.asked + 1]))
C13_GetMultiIter == []GmCallsInOrder /\ [][GmDispatch]_vars
\* GetMultiIter has returned the ShutdownError from its second Get, after
\* a hit on the first key, with a third key never asked for.
C13_Witness ==
    /\ gm.pc = "done" /\ gm.err = ErrShutdown
    /\ Len(gm.keys) = 3 /\ gm.asked = 2
    /\ Len(gm.calls) = 1 /\ gm.calls[1].cb = "hit"

\* C15: whenever the worker is about to call onExpiry with a detached
\* bucket, the clock is at or after the bucket's deadline, and every key of
\* the set is there for a registration whose time, rounded up to its
\* bucket boundary, is not after the clock; so under every interleaving of
\* Register, Unregister, wake-ups and timer ticks no key is reported early.
C15_NotBeforeDeadline ==
    run.pc = "call" =>
        /\ run.rec # {}
        /\ now >= run.dl
        /\ run.dl % em.bucketSize = 0
        /\ \A k \in run.rec :
             \E r \in hist.det : r[1] = k /\ r[3] <= now /\ r[3] = run.dl
\* The worker reports both keys at the very instant of their deadline, the
\* first boundary after the start, with a later bucket still waiting and a
\* wake-up signal pending.
C15_Witness ==
    /\ run.pc = "call" /\ run.rec = EKeys
    /\ run.dl = BucketWidth /\ now = BucketWidth
    /\ em.timeHeap # <<>> /\ em.wakeUp = 1
    /\ DOMAIN em.expiryTimes # {}

\* C16: a registration that Unregister was called for before the worker
\* detached its bucket is never passed to onExpiry: Unregister takes the
\* key out of the bucket its Handle names, a key is in a bucket only for a
\* registration that is still pending, and the set the worker reports
\* holds only keys whose registration was pending at the detach.
InBucket(e, key, d) == d \in DOMAIN e.expiryTimes /\ key \in e.expiryTimes[d]
C16_UnregisteredNeverReported ==
    /\ \A reg \in hist.pend :
         ~InBucket(ExpiryUnregister(em, reg[2], reg[1]), reg[1], reg[2])
    /\ \A d \in DOMAIN em.expiryTimes : \A k \in em.expiryTimes[d] :
         \E r \in hist.pend : r[1] = k /\ r[2] = d
    /\ run.rec \subseteq KeysIn(hist.det)
    /\ \A r \in hist.det : r[3] = run.dl
\* The worker reports one key of a bucket whose deadline is in the heap a
\* second time: the bucket had been emptied by Unregister and made anew by
\* a later Register before it was detached.
C16_Witness ==
    /\ run.pc = "call" /\ Cardinality(run.rec) = 1
    /\ \E i \in DOMAIN em.timeHeap : em.timeHeap[i] = run.dl
    /\ hist.pend = {}

\* C17: in every state, a bucket is in the bucket map iff there are keys
\* registered for it (and then its set holds them, so is not empty), and a
\* deadline is in the priority queue iff a bucket exists for it, and then
\* exactly once.
TimesIn(heap, d) == Cardinality({i \in DOMAIN heap : heap[i] = d})
BucketsHoldPending ==
    /\ \A d \in DOMAIN em.expiryTimes :
         /\ em.expiryTimes[d] # {}
         /\ em.expiryTimes[d] = KeysIn(DueAt(hist.pend, d))
    /\ \A r \in hist.pend : r[3] \in DOMAIN em.expiryTimes
C17_BucketsMatchQueue ==
    /\ BucketsHoldPending
    /\ \A d \in Times :
         TimesIn(em.timeHeap, d) = IF d \in DOMAIN em.expiryTimes THEN 1 ELSE 0

\* C18: Unregister(h, k) with the Handle h that Register returned for k
\* takes k, and nothing else, out of the bucket h names: the other keys of
\* that bucket stay, every other bucket is as it was, the bucket is
\* deleted exactly when k was its last key, and the priority queue is not
\* touched. With a Handle and key that stand for no pending registration
\* it changes nothing.
UnregisterOnly(e, e2, h, k) ==
    /\ DOMAIN e2.expiryTimes = DOMAIN e.expiryTimes \ 
            (IF e.expiryTimes[h] = {k} THEN {h} ELSE {})
    /\ \A d \in DOMAIN e2.expiryTimes :
         e2.expiryTimes[d] =
            IF d = h THEN e.expiryTimes[d] \ {k} ELSE e.expiryTimes[d]
    /\ \A d \in DOMAIN e2.expiryTimes : e2.expiryTimes[d] # {}
    /\ e2.timeHeap = e.timeHeap
    /\ e2.nextExpiryTime = e.nextExpiryTime
    /\ e2.quit = e.quit
C18_UnregisterOnlyThatKey ==
    /\ \A reg \in hist.pend :
         UnregisterOnly(em, ExpiryUnregister(em, reg[2], reg[1]), reg[2], reg[1])
    /\ \A k \in EKeys, h \in Times :
         (\A r \in hist.pend : r[1] # k \/ r[2] # h) =>
             ExpiryUnregister(em, h, k) = em
\* Two keys share a bucket, a second bucket exists, and the worker waits
\* with its timer armed: Unregister of one key leaves the other key alone
\* in the bucket.
C18_Witness ==
    /\ run.pc = "wait" /\ run.timer.on
    /\ Cardinality(DOMAIN em.expiryTimes) = 2
    /\ \E reg \in hist.pend :
         /\ em.expiryTimes[reg[2]] = EKeys
         /\ Cardinality(ExpiryUnregister(em, reg[2], reg[1]).expiryTimes[reg[2]])
              = NumEKeys - 1

\* C19: with bucket size 30 s and base time t, after Register(1, t),
\* Register(2, t + 5 s) and Register(4, t + 35 s) keys 1 and 2 are alone in
\* one bucket and key 4 is alone in the bucket 30 s later; the first drain
\* returns {1, 2} and the second {4}.
ExampleYields ==
    /\ KeysIn(hist.pend) = TestKeys =>
         \E d \in DOMAIN em.expiryTimes :
            /\ em.expiryTimes[d] = {1, 2}
            /\ d + Width30s \in DOMAIN em.expiryTimes
            /\ em.expiryTimes[d + Width30s] = {4}
    /\ Len(hist.log) = 1 => run.rec = {1, 2}
    /\ Len(hist.log) = 2 => run.rec = {4}
    /\ Len(hist.log) <= 2
C19_ExampleBuckets == ExampleYields
\* C19, amended: the same for every base time t that lies more than 0 and
\* at most 25 s after a bucket boundary.
C19_ExampleBucketsOffBoundary ==
    (now % Width30s) \in 1 .. (Width30s - FiveSec) => ExampleYields
\* Base time 25 s after a boundary, so that t + 5 s is on a boundary: the
\* second drain has returned {4}.
C19_Witness ==
    /\ now % Width30s = Width30s - FiveSec
    /\ Len(hist.log) = 2 /\ run.rec = {4}
    /\ hist.log[1] = now + FiveSec

\* C20: Register(key, t) puts the key into the bucket whose deadline is
\* the least multiple of the bucket size at or after t (t itself when t is
\* a multiple), returns that deadline as the Handle and leaves the other
\* buckets as they are; the buckets drained one after another with no
\* Register in between come in strictly increasing order of deadline; and
\* each drained set is exactly the keys registered for that deadline and
\* not unregistered.
RegisterRounds(e, r, key, t) ==
    /\ r.h = Boundary(t, e.bucketSize)
    /\ r.h >= t /\ r.h < t + e.bucketSize /\ r.h % e.bucketSize = 0
    /\ t % e.bucketSize = 0 => r.h = t
    /\ DOMAIN r.e.expiryTimes = DOMAIN e.expiryTimes \cup {r.h}
    /\ \A d \in DOMAIN r.e.expiryTimes :
         r.e.expiryTimes[d] =
            IF d # r.h THEN e.expiryTimes[d]
            ELSE KeysIn(DueAt(hist.pend, d)) \cup {key}
WorkerExited == run.pc = "exit" /\ em.wg = 0 /\ ~run.timer.on
WorkerStill == sd = "done" => run' = run
C21_ShutdownWaitsForWorker ==
    [](sd = "done" => WorkerExited) /\ [][WorkerStill]_vars
\* Shutdown has returned after the worker had reported a bucket, with a
\* key still pending in a bucket that will never be reported.
C21_Witness ==
    /\ sd = "done" /\ run.pc = "exit"
    /\ hist.log # <<>> /\ hist.pend # {}

\* C22: while onExpiry runs, the mutex is free, so that a Register or
\* Unregister made from the callback can take it; the set the callback was
\* given is a map object that is in no bucket and not in the pool; every
\* bucket has a map object of its own that holds the bucket's keys and is
\* not in the pool, and the objects of the pool are empty; and no step
\* taken while the callback runs (a Register or Unregister by anybody)
\* changes the keys of the set being reported.
Reported(o) == {x \in o : x.rep}
OwnObject(o, d, keys) ==
    /\ HasAt(o, d)
    /\ ObjAt(o, d) = [keys |-> keys, at |-> {d}, rep |-> FALSE, pooled |-> FALSE]
ObjectsApart ==
    /\ ~em.mu
    /\ \A d \in DOMAIN em.expiryTimes : OwnObject(objs, d, em.expiryTimes[d])
    /\ \A x \in objs : x.at \subseteq DOMAIN em.expiryTimes
    /\ \A x \in objs : x.pooled => x.keys = {} /\ x.at = {} /\ ~x.rep
    /\ run.pc = "call" =>
         Reported(objs) =
            {[keys |-> run.rec, at |-> {}, rep |-> TRUE, pooled |-> FALSE]}
ReportedUntouched ==
    run.pc = "call" /\ run'.pc = "call" =>
        /\ Reported(objs') = Reported(objs)
        /\ run'.rec = run.rec
C22_CallbackOnDetachedSet == []ObjectsApart /\ [][ReportedUntouched]_vars
\* While onExpiry runs with one key, Register calls have made a new
\* bucket for the very deadline being reported and put both keys in it.
C22_Witness ==
    /\ run.pc = "call" /\ Cardinality(run.rec) = 1
    /\ run.dl \in DOMAIN em.expiryTimes
    /\ em.expiryTimes[run.dl] = EKeys
    /\ \A x \in objs : ~x.pooled

\* C23: a Register that makes a new bucket for a deadline before
\* nextExpiryTime, the deadline the timer was last armed for, leaves a
\* wake-up signal in the channel, and a setupTimer run after it arms the
\* timer for no later than that deadline (or at once when it has passed);
\* so the worker never waits, with no wake-up pending, on a timer armed
\* for later than the earliest deadline in the heap.
Later(a, b) == IF a < b THEN b ELSE a
WakesForEarlier(e, r) ==
    (r.h \notin DOMAIN e.expiryTimes /\ Less(r.h, e.nextExpiryTime)) =>
        /\ r.e.wakeUp = 1
        /\ SetupTimer(r.e, now).timer.on
        /\ SetupTimer(r.e, now).timer.at <= Later(now, r.h)
        /\ SetupTimer(r.e, now).e.nextExpiryTime <= r.h
C23_EarlierBucketWakesWorker ==
    /\ \A key \in EKeys, t \in Times :
         WakesForEarlier(em, ExpiryRegister(em, key, t))
    /\ (run.pc = "wait" /\ run.timer.on /\ em.wakeUp = 0) =>
         /\ em.timeHeap # <<>>
         /\ run.timer.at <= Later(now, HeapPeep(em.timeHeap).val)
\* The worker waits on a timer armed for a later deadline while a bucket
\* with an earlier one has just been made: the wake-up signal is pending.
C23_Witness ==
    /\ run.pc = "wait" /\ run.timer.on /\ em.wakeUp = 1
    /\ em.timeHeap # <<>>
    /\ HeapPeep(em.timeHeap).val < em.nextExpiryTime
    /\ HeapPeep(em.timeHeap).val \in DOMAIN em.expiryTimes
    /\ run.timer.at > now

\* The quotient of a by b rounded up, in unbounded integers; 0 for b = 0.
CeilDiv(a, b) == IF b = 0 THEN 0 ELSE (a + b - 1) \div b
IsPowerOfTwo(x) == \E i \in 0 .. UintBits : x = 2 ^ i
\* The least power of two at or above n, in unbounded integers, for n up
\* to four times the largest uint.
PowersOfTwo == {2 ^ i : i \in 0 .. (UintBits + 2)}
PowerOfTwoFrom(n) ==
    CHOOSE p \in PowersOfTwo : p >= n /\ \A q \in PowersOfTwo : q >= n => p <= q
\* The largest int, half the range of uint.
MaxInt == UintMod \div 2 - 1
\* C24: whatever the capacity, targetPerShard, minShards and cpuCount,
\* zero included, computeMaxshards returns a power of two that is at
\* least 1.
C24_PowerOfTwo ==
    sr.pc # "call" => sr.maxShards >= 1 /\ IsPowerOfTwo(sr.maxShards)

C26_ShardCountFormula ==
    (sr.pc # "call" /\ sr.capacity >= 1 /\ sr.cpuCount >= 1) =>
        /\ sr.minShards = 0 =>
             /\ sr.maxShards =
                   Smaller(PowerOfTwoFrom(Larger(CeilDiv(sr.capacity,
                                                         sr.targetPerShard),
                                                 sr.cpuCount * CpuMultiplier)),
                           ShardsCap)
             /\ sr.maxShards <= ShardsCap
        /\ sr.minShards > 0 => sr.maxShards = PowerOfTwoFrom(sr.minShards)
        /\ sr.pc # "computed" =>
             sr.pc = "done" /\ sr.perShard = CeilDiv(sr.capacity, sr.maxShards)

\* The messages of the checks the options o fail.
Wrong(o) ==
    (IF o.Capacity = 0 THEN {"capacity must be positive"} ELSE {})
    \cup (IF o.ShardsFn = "nil" THEN {"shardsFn cannot be nil"} ELSE {})
    \cup (IF o.CacherMaker = MakerNil THEN {"cacherMaker cannot be nil"} ELSE {})
\* The shard count of options with an explicit MinShards.
CountOf(o) == PowerOfTwoFrom(o.MinShards)
\* New returned an error and no cache.
NoCacheBuilt(r) == r.pc = "failed" /\ r.shards = <<>> /\ r.mock = <<>>
\* What New returns for the options it was called with.
NewAsSpecified ==
    sr.pc = "options" =>
        LET o == sr.opt
        IN  /\ Wrong(o) # {} =>
                 /\ NoCacheBuilt(sr')
                 /\ sr'.err.kind = "InvalidOptions"
                 /\ sr'.err.Message \in Wrong(o)
            /\ (Wrong(o) = {} /\ o.CacherMaker \in 1 .. CountOf(o)) =>
                 NoCacheBuilt(sr') /\ sr'.err # NoErr
            /\ sr'.pc = "ready" =>
                 /\ sr'.err = NoErr
                 /\ DOMAIN sr'.shards = 1 .. CountOf(o)
                 /\ \A i \in 1 .. CountOf(o) :
                       /\ sr'.shards[i] = "live"
                       /\ sr'.mock[i] =
                             NewShard(CeilDiv(o.Capacity, CountOf(o)))
\* C27: New returns an InvalidOptions error and no cache when Capacity is
\* 0, when ShardsFn is nil and when CacherMaker is nil, with the message of
\* one of the checks that fail (the three messages differ); it returns an
\* error and no cache when CacherMaker fails for one of the shards; and
\* when it returns a cache, every one of its slots holds the shard the
\* factory built for it. After a failed New there is no cache at any time.
C27_ConstructionValidates ==
    [](sr.pc = "failed" => sr.shards = <<>>) /\ [][NewAsSpecified]_vars
\* The factory failed for the second of two shards, and New returned its
\* error and no cache.
C27_Witness ==
    /\ sr.pc = "failed" /\ sr.err = MakerErr
    /\ sr.opt.MinShards = 2 /\ sr.opt.CacherMaker = 2
    /\ sr.shards = <<>>

\* The index the selector's value for key is reduced to, in integers.
Reduced(r, key) == ShardsFn(r.opt.ShardsFn, key, r.maxShards) % r.maxShards
\* Every call made with a key so far went to the slot at the selector's
\* value reduced modulo the shard count, which is a slot of the router.
RoutedByKey ==
    sr.pc = "ready" =>
        \A key \in RKeys :
            /\ sr.routed[key] \subseteq {Reduced(sr, key)}
            /\ sr.routed[key] \subseteq 0 .. sr.maxShards - 1
\* A step is a call of Get, Put or Delete.
KeyedCall ==
    sr.pc = "ready" /\ sr'.ret.n # sr.ret.n
        /\ sr'.ret.kind \in {"Get", "Put", "Delete"}
\* A call with a key leaves every shard but the one at its index, and
\* every slot, as they were; a Put reaching a live shard leaves the key in
\* that shard.
OneShardTouched ==
    KeyedCall =>
        LET i == Reduced(sr, sr'.ret.key) + 1
        IN  /\ sr'.ret.idx + 1 = i
            /\ \A j \in DOMAIN sr.mock \ {i} : sr'.mock[j] = sr.mock[j]
            /\ sr'.shards = sr.shards
            /\ (sr'.ret.kind = "Put" /\ sr.shards[i] = "live") =>
                  Find(sr'.mock[i].items, sr'.ret.key) # 0
\* C28: for every key, Get, Put and Delete act on the one shard at index
\* selector(key) reduced modulo the shard count: the index is within
\* [0, shardCount) also for a selector value out of range, it is the same
\* for every call with the key, and no other shard is touched.
C28_OneShardPerKey == []RoutedByKey /\ [][OneShardTouched]_vars
\* Two calls with one key under a selector whose values are far out of
\* range, the second a Put that reached the live second shard of two.
C28_Witness ==
    /\ sr.pc = "ready" /\ sr.maxShards = 2 /\ sr.opt.ShardsFn = "far"
    /\ sr.ret.kind = "Put" /\ sr.ret.n = 2 /\ sr.ret.view = "live"
    /\ sr.ret.idx = 1 /\ sr.routed[sr.ret.key] = {1}
    /\ \A key \in RKeys \ {sr.ret.key} : sr.routed[key] = {}

\* C29: no read of a slot that overlaps Shutdown goes wrong (the slot
\* yields the live shard or the sentinel), and a call that went over the
\* slots either found every shard live or got the no-op result from every
\* one: it never acted on a set of shards of which only some were shut
\* down.
C29_LiveOrNopNeverPartial ==
    /\ ~sr.fault
    /\ (sr.pc = "ready" /\ sr.ret.kind \in {"Size", "Capacity", "Traverse"}
           /\ ~sr.ret.shut)
       => (sr.ret.live = 0 \/ sr.ret.nops = 0)

\* Once a Shutdown that no other Shutdown overlapped has returned, every
\* slot holds the sentinel and every shard's Shutdown has been invoked
\* once; before that, at most once.
ShutDownOnce ==
    (sr.pc = "ready" /\ ~sr.raced) =>
        /\ \A i \in DOMAIN sr.mock : sr.mock[i].down <= 1
        /\ ShutdownReturned(sr) =>
              \A i \in DOMAIN sr.shards :
                  sr.shards[i] = "nop" /\ sr.mock[i].down = 1
\* A call made after such a Shutdown returned the shut-down result.
EmptyAfterShutdown ==
    (sr.pc = "ready" /\ ~sr.raced /\ sr.ret.kind # "none" /\ sr.ret.post) =>
        /\ sr.ret.kind \in {"Get", "Put", "Delete"} =>
              ~sr.ret.hit /\ sr.ret.val = 0
        /\ sr.ret.kind \in {"Size", "Capacity", "Traverse"} =>
              sr.ret.total = 0 /\ sr.ret.seen = <<>>
\* A Shutdown called after such a Shutdown returned invokes no shard's
\* Shutdown and changes no slot, and so do the calls of the caller.
AgainNothing ==
    (sr.pc = "ready" /\ ~sr.raced /\ ShutdownReturned(sr)) =>
        sr'.mock = sr.mock /\ sr'.shards = sr.shards
\* C30: Shutdown invokes the Shutdown of every live shard exactly once and
\* leaves the sentinel in every slot; a Shutdown called afterwards invokes
\* no shard's Shutdown and changes no slot; and Size, Capacity, Get and
\* Traverse called afterwards return 0, 0, a miss and no entry.
C30_ShutdownOnceThenNop ==
    [](ShutDownOnce /\ EmptyAfterShutdown) /\ [][AgainNothing]_vars
\* Both Shutdown calls have returned, one after the other, with an entry
\* still in a shard of two, and a Size called after them returned 0.
C30_Witness ==
    /\ sr.pc = "ready" /\ ~sr.raced /\ sr.maxShards = 2
    /\ \A t \in ShutdownCallers : sr.sd[t].pc = "returned"
    /\ \E i \in DOMAIN sr.mock : sr.mock[i].items # <<>>
    /\ sr.ret.kind = "Size" /\ sr.ret.post /\ sr.ret.shut /\ sr.ret.total = 0

\* The entries fn has been called with are in ascending order of their
\* shards' indices, and an entry at which fn returned false is the last.
AscendingThenStop(seen, stopAt) ==
    /\ \A a, b \in DOMAIN seen :
          a < b => Reduced(sr, seen[a][1]) <= Reduced(sr, seen[b][1])
    /\ \A a \in DOMAIN seen : seen[a][1] = stopAt => a = Len(seen)
\* C31: Traverse visits the shards in ascending order of index and, once
\* fn has returned false for an entry, calls fn no more and traverses no
\* later shard.
C31_TraverseStopsEntirely ==
    sr.pc = "ready" =>
        /\ sr.op.kind = "Traverse" =>
              AscendingThenStop(sr.op.seen, sr.op.stopAt)
        /\ sr.ret.kind = "Traverse" =>
              AscendingThenStop(sr.ret.seen, sr.ret.stopAt)

\* A step is the client's call of MoveToFront or Remove.
EntryCall ==
    lc'.ret.n # lc.ret.n /\ lc'.ret.op \in {"MoveToFront", "Remove"}
\* C32: MoveToFront on a List with an Entry that belongs to a different
\* List returns an error, and Remove with such an Entry does nothing; in
\* both cases no link, order or size of either List changes (nothing in
\* the memory of Lists and Entries does).
OtherListRejected ==
    (EntryCall /\ lc'.ret.owner \notin {Nil, lc'.ret.l}) =>
        /\ lc'.m = lc.m
        /\ lc'.ret.op = "MoveToFront" => lc'.ret.err
C32_OtherListRejected == [][OtherListRejected]_vars
\* MoveToFront was called on the second List with an Entry of the first,
\* next to another, and returned an error.
C32_Witness ==
    /\ lc.ret.op = "MoveToFront" /\ lc.ret.err
    /\ lc.ret.l = 2 /\ lc.ret.owner = 1 /\ lc.ret.h.st = "valid"
    /\ lc.m.lst[1].len = 2 /\ ~lc.m.fault

\* The values of the List l from front to back.
OrderOf(m, l) == [i \in DOMAIN ListSeq(m, l) |-> m.ent[ListSeq(m, l)[i]].Value]
\* The call changed the order and the size of no List, and did not panic.
NoListChanged ==
    /\ ~lc'.m.fault
    /\ \A l \in ClientLists :
          /\ OrderOf(lc'.m, l) = OrderOf(lc.m, l)
          /\ ListSize(lc'.m, l) = ListSize(lc.m, l)
\* C33: once an Entry has been removed by Remove or PopBack, a later
\* MoveToFront or Remove through the handle to it does nothing: the order
\* and the size of every List stay as they are, whatever the List has
\* inserted since.
RemovedHandleNoOp == (EntryCall /\ lc'.ret.h.st = "removed") => NoListChanged
C33_RemovedHandleNoOp == [][RemovedHandleNoOp]_vars

\* The destroyed List is empty, with the links of its sentinel as Destroy
\* left them.
StillDestroyed(m, l) == m.lst[l] = ZeroList
\* C34: after Destroy every handle created before it is invalid for good:
\* MoveToFront through it returns an error, Remove through it does
\* nothing, and the destroyed List stays empty with its sentinel's links
\* untouched.
DestroyedHandleRejected ==
    (EntryCall /\ lc'.ret.h.st = "destroyed" /\ lc'.ret.l = lc'.ret.h.l
        /\ StillDestroyed(lc.m, lc'.ret.l)) =>
        /\ ~lc'.m.fault
        /\ lc'.ret.op = "MoveToFront" => lc'.ret.err
        /\ StillDestroyed(lc'.m, lc'.ret.l)
        /\ lc'.m.ent = lc.m.ent
C34_DestroyedHandleRejected == [][DestroyedHandleRejected]_vars

\* The Entries met from p along next (forward) or prev up to the sentinel
\* root, and whether the sentinel was reached within fuel steps.
RECURSIVE WalkFrom(_, _, _, _, _)
WalkFrom(m, p, root, fuel, forward) ==
    IF p = root THEN [nodes |-> <<>>, closed |-> TRUE]
    ELSE IF fuel = 0 \/ p <= 0 THEN [nodes |-> <<>>, closed |-> FALSE]
    ELSE LET r == WalkFrom(m, IF forward THEN m.ent[p].next ELSE m.ent[p].prev,
                           root, fuel - 1, forward)
         IN  [nodes |-> <<p>> \o r.nodes, closed |-> r.closed]
Reversed(q) == [i \in DOMAIN q |-> q[Len(q) + 1 - i]]
\* Following next from the sentinel of l leads back to it after exactly
\* Size() Entries, following prev meets the same Entries in reverse order,
\* and every one of them names l as its List.
Ring(m, l) ==
    LET f == WalkFrom(m, m.lst[l].next, RootOf(l), Cardinality(NodeIds) + 1, TRUE)
        b == WalkFrom(m, m.lst[l].prev, RootOf(l), Cardinality(NodeIds) + 1, FALSE)
    IN  /\ f.closed /\ b.closed
        /\ Len(f.nodes) = ListSize(m, l)
        /\ b.nodes = Reversed(f.nodes)
        /\ \A i \in DOMAIN f.nodes : m.ent[f.nodes[i]].list = l
\* C35: after any sequence of Init, PushFront, MoveToFront, Remove and
\* PopBack (no List has been destroyed), every List is a ring of exactly
\* Size() Entries in both directions, each naming the List as its owner,
\* and no call has panicked.
C35_RingOfSizeNodes ==
    lc.gone = {} => (~lc.m.fault /\ \A l \in ClientLists : Ring(lc.m, l))

\* No element of the heap orders before its parent.
HeapOrdered(d) ==
    \A j \in 1 .. Len(d) - 1 : ~Less(d[j + 1], d[Parent(j) + 1])
\* What popping until the heap is empty yields.
RECURSIVE PoppedAll(_)
PoppedAll(d) == IF d = <<>> THEN <<>> ELSE <<HeapPop(d).x>> \o PoppedAll(HeapPop(d).data)
NonDecreasing(q) == \A i \in 1 .. Len(q) - 1 : ~Less(q[i + 1], q[i])
\* Pop returned an element that none of the heap ordered before.
PoppedMinimum ==
    (hp'.last.op = "Pop" /\ Len(hp'.data) = Len(hp.data) - 1) =>
        \A j \in DOMAIN hp.data : ~Less(hp.data[j], hp'.last.x)
\* C36: after any sequence of Push, Pop and Fix (each Fix after a change of
\* the element at its index), no element orders before its parent; Peep
\* returns an element none orders before, and so does Pop; the heap holds
\* the elements put in and not yet got out; and popping until it is empty
\* yields each of them once, in non-decreasing order.
C36_HeapOrder ==
    /\ [](/\ HeapOrdered(hp.data)
          /\ HeapPeep(hp.data).found =>
                \A j \in DOMAIN hp.data : ~Less(hp.data[j], HeapPeep(hp.data).val)
          /\ BagOf(hp.data) = hp.in
          /\ NonDecreasing(PoppedAll(hp.data))
          /\ BagOf(PoppedAll(hp.data)) = hp.in)
    /\ [][PoppedMinimum]_vars
\* A full heap whose last call was a Fix that lowered a leaf to the least
\* value, which is now at the root.
C36_Witness ==
    /\ Len(hp.data) = MaxHeapLen /\ hp.last = [op |-> "Fix", x |-> 0]
    /\ hp.in[0] = 1 /\ hp.data[1] = 0
    /\ \E x \in HeapVals \ {0} : hp.in[x] >= 2

\* C37: with the worker scheduled fairly and Shutdown not called, a key
\* registered for a bucket and not unregistered is passed to onExpiry once
\* the bucket's deadline has passed, also when it was registered while the
\* worker waited without a timer after draining all earlier buckets.
PendingFor(key, d) == \E r \in hist.pend : r[1] = key /\ r[3] = d
ReportedFor(key, d) == run.pc = "call" /\ key \in run.rec /\ run.dl = d
C37_RegisteredKeyExpires ==
    \A key \in EKeys, d \in Times :
        (PendingFor(key, d) /\ now >= d)
            ~> (ReportedFor(key, d) \/ ~PendingFor(key, d))

\* Goroutine t holds a lock.
HoldsQ(S, t) == S.qMutex = t
HoldsMap(S, t) == S.mapMutex.w = t /\ ~At(S, t, "wlock")
\* The call on top of t's stack waits for a lock.
WantsQ(S, t) ==
    \/ \E pc \in {"q", "pq", "pn", "dq", "rq", "tq"} : At(S, t, pc)
    \/ At(S, t, "start") /\ Top2(S, t).op = "Size"
WantsMap(S, t) ==
    \/ At(S, t, "start") /\ Top2(S, t).op # "Size"
    \/ At(S, t, "wlock") \/ At(S, t, "rblocked")
Blocked(S, t) ==
    \/ WantsQ(S, t) /\ S.qMutex # Nil
    \/ At(S, t, "start") /\ Top2(S, t).op \in Writers /\ S.mapMutex.w # Nil
    \/ At(S, t, "wlock") /\ S.mapMutex.wait # 0
    \/ At(S, t, "rblocked") /\ t \in S.mapMutex.b
InCall(S) == {t \in L2Threads : S.thr[t] # <<>>}
\* Calls are in progress and none of them can go on.
Deadlocked(S) == ~S.fatal /\ InCall(S) # {} /\ \A t \in InCall(S) : Blocked(S, t)

\* C38: the eviction callback of Put, Delete, Reset and Shutdown runs with
\* neither mapMutex nor qMutex held by its goroutine, and a call that the
\* callback makes does not wait for a lock its own goroutine holds.
CallbackUnlocked ==
    \A t \in L2Threads :
        CallbackRuns(c2, t) => ~HoldsQ(c2, t) /\ ~HoldsMap(c2, t)
NoSelfWait ==
    \A t \in L2Threads :
        Len(c2.thr[t]) > 1 =>
            /\ WantsQ(c2, t) => ~HoldsQ(c2, t)
            /\ WantsMap(c2, t) => ~HoldsMap(c2, t)
C38_CallbackWithoutLocks == CallbackUnlocked /\ NoSelfWait

\* C39: a call made after Shutdown has returned, a Put as well, returns a
\* ShutdownError; nothing panics and the runtime does not end the process;
\* and a goroutine that is in no call holds neither mapMutex nor qMutex.
LateCallsRefused == c2.last.late => c2.last.err = ErrShutdown
LocksReleased ==
    \A t \in L2Threads :
        c2.thr[t] = <<>> => ~HoldsQ(c2, t) /\ c2.mapMutex.w # t
C39_AfterShutdownError ==
    /\ ~c2.fatal /\ ~c2.panicked
    /\ LateCallsRefused
    /\ LocksReleased

\* C40: with Get, Put, Delete, Reset and Traverse interleaved in any way
\* (Shutdown not called), no goroutine asks for mapMutex while it holds
\* qMutex, the element a Get or a Put found in the index is linked in the
\* queue when the call holds qMutex (MoveToFront never fails), and the
\* calls in progress are never all waiting for a lock.
ShutdownCalled(S) ==
    \/ S.isShutdown \/ S.sdDone
    \/ \E t \in L2Threads : \E i \in 1 .. Len(S.thr[t]) :
          S.thr[t][i].op = "Shutdown"
IndexThenContainer == \A t \in L2Threads : WantsMap(c2, t) => ~HoldsQ(c2, t)
FoundIsLinked ==
    \A t \in L2Threads :
        (At(c2, t, "q") \/ At(c2, t, "pq")) /\ c2.qMutex = Nil
            => c2.m.ent[Top2(c2, t).elem].list = Q
C40_LockOrderNoDeadlock ==
    ~ShutdownCalled(c2) =>
        /\ IndexThenContainer
        /\ FoundIsLinked /\ ~c2.panicked
        /\ ~Deadlocked(c2)

====
